---- MODULE Spec2Model ----
(***************************************************************************)
(* Model of the attendance calculator of Holiday_Planner                   *)
(* (src/backend/attendance/calculate.ts, the endpoint with                 *)
(* optimalLeaveDates, lines 358-802).                                      *)
(*                                                                         *)
(* Dates.  The front end sends new Date("YYYY-MM-DD") (OverviewPage.tsx    *)
(* 538-539), i.e. midnight UTC, and the model takes the server's local     *)
(* time zone to be UTC.  A Date is therefore a day number, the whole days  *)
(* since 1970-01-01, and the Date methods the code calls (getDay,          *)
(* getFullYear, setDate, setMonth, new Date(y, m, d), toISOString) are     *)
(* the operators of the first section.  Instants that are not midnight     *)
(* (the midpoint of a period, Date.now()) are only ever read through       *)
(* toISOString().split('T')[0], which keeps the UTC day: they are          *)
(* modelled by the day they fall in.                                       *)
(*                                                                         *)
(* Numbers.  All numeric inputs are integers, for which the floating       *)
(* point Math.ceil(n / 100), Math.floor(n / 100) and Math.floor(n * 0.8)   *)
(* equal the exact integer ceiling and floors used here.                   *)
(***************************************************************************)
EXTENDS Integers, Sequences, FiniteSets, TLC

VARIABLES req, now, pc, res, fetchYear, fetched, calls, openAIKey

\* the state of a getPublicHolidays request being served: the year the loop of
\* fetchPublicHolidays has come to, the holidays it has pushed so far, and the calls
\* made to the provider
calendarVars == <<fetchYear, fetched, calls>>

\* openAIKey is the secret OpenAIKey the chat endpoint reads, undefined when it is
\* not configured
vars == <<req, now, pc, res, fetchYear, fetched, calls, openAIKey>>

(***************************************************************************)
(* Bounds of the model                                                     *)
(***************************************************************************)
\* longest period, in days after startDate, of the arithmetic specification
MaxSpan == 25
\* largest leavesAvailedAlready of the arithmetic specification
MaxLeaves == 2
\* number of days the clock may still advance before the request is served
MaxTicks == 2
\* longest period of the planning specification, in steps of 30 days
MaxPlanMonths == 12
\* how many days endDate may lie before startDate in the specification of
\* unvalidated requests
MaxBack == 10
\* longest list of holidays the provider returns for one year
MaxListed == 2

(***************************************************************************)
(* JavaScript Date, in whole days                                          *)
(***************************************************************************)
Max(a, b) == IF a >= b THEN a ELSE b

Min(a, b) == IF a <= b THEN a ELSE b

\* day number of the civil date y-m-d, m in 1..12 (proleptic Gregorian), from the
\* year counted from March and the day of that year
DaysFromShifted(yy, doy) ==
  (yy \div 400) * 146097 + (yy % 400) * 365 + (yy % 400) \div 4 - (yy % 400) \div 100
    + doy - 719468

DaysFromCivil(y, m, d) ==
  DaysFromShifted(IF m <= 2 THEN y - 1 ELSE y,
                  (153 * (IF m > 2 THEN m - 3 ELSE m + 9) + 2) \div 5 + d - 1)

\* civil date <<year, month 1..12, day>> of a day number: year counted from March
\* y, day doy of that year, and its month mp counted from March
CivilFromMonth(y, doy, mp) ==
  << IF mp < 10 THEN y ELSE y + 1,
     IF mp < 10 THEN mp + 3 ELSE mp - 9,
     doy - (153 * mp + 2) \div 5 + 1 >>

CivilFromYearDay(y, doy) == CivilFromMonth(y, doy, (5 * doy + 2) \div 153)

\* era of 400 years, day doe of the era, year yoe of the era
CivilFromYearOfEra(era, doe, yoe) ==
  CivilFromYearDay(yoe + era * 400, doe - (365 * yoe + yoe \div 4 - yoe \div 100))

CivilFromEra(era, doe) ==
  CivilFromYearOfEra(era, doe,
                     (doe - doe \div 1460 + doe \div 36524 - doe \div 146096) \div 365)

CivilFromDays(z) == CivilFromEra((z + 719468) \div 146097, (z + 719468) % 146097)

\* new Date(year, monthIndex, day): monthIndex is 0-based, month and day overflow carry
MakeDate(year, monthIndex, day) ==
  DaysFromCivil(year + monthIndex \div 12, (monthIndex % 12) + 1, 1) + day - 1

\* Date.prototype.getDay: 0 = Sunday .. 6 = Saturday (1970-01-01 was a Thursday)
getDay(date) == (date + 4) % 7

getFullYear(date) == CivilFromDays(date)[1]

\* Date.prototype.getMonth: 0-based
getMonth(date) == CivilFromDays(date)[2] - 1

getDate(date) == CivilFromDays(date)[3]

\* date.setDate(n)
setDate(date, n) == MakeDate(getFullYear(date), getMonth(date), n)

\* date.setMonth(m)
setMonth(date, m) == MakeDate(getFullYear(date), m, getDate(date))

\* date.toISOString().split('T')[0]: the text "YYYY-MM-DD", kept as <<YYYY, MM, DD>>
toISODate(date) == CivilFromDays(date)

\* new Date("YYYY-MM-DD").getTime(), in days
parseISODate(s) == DaysFromCivil(s[1], s[2], s[3])

(***************************************************************************)
(* Optional request fields: {} is undefined, {v} is the value v            *)
(***************************************************************************)
Undefined == {}

Some(v) == {v}

ValueOf(opt) == CHOOSE v \in opt : TRUE

\* opt || 0
OrZero(opt) == IF opt = Undefined THEN 0 ELSE ValueOf(opt)

\* truthiness of an optional string: undefined and "" are falsy
Truthy(opt) == opt # Undefined /\ ValueOf(opt) # ""

(***************************************************************************)
(* calculate: the arithmetic                                               *)
(***************************************************************************)
\* Math.ceil(n / 100)
CeilDiv100(n) == -((-n) \div 100)

\* Math.floor(n / 100)
FloorDiv100(n) == n \div 100

\* the while loop of calculateWorkingDays from currentDate to end, count being the
\* count so far.  One pass handles one day; the passes over several days add what
\* the passes over the first half of the days and those over the rest add, which
\* keeps the depth of the evaluation logarithmic in the length of the period.
RECURSIVE WorkingDaysLoop(_, _, _)
WorkingDaysLoop(currentDate, end, count) ==
  IF currentDate > end THEN count
  ELSE IF currentDate = end
    THEN (IF getDay(currentDate) # 0 /\ getDay(currentDate) # 6 THEN count + 1 ELSE count)
    ELSE count + WorkingDaysLoop(currentDate, (currentDate + end) \div 2, 0)
               + WorkingDaysLoop((currentDate + end) \div 2 + 1, end, 0)

\* the days counted between the two dates in whichever order they come
calculateWorkingDays_eitherOrder(startDate, endDate) ==
  WorkingDaysLoop(Min(startDate, endDate), Max(startDate, endDate), 0)

\* the loop stopping one day early (currentDate < end)
calculateWorkingDays_exclusiveEnd(startDate, endDate) == WorkingDaysLoop(startDate, endDate - 1, 0)

\* every day of the period counted, Saturdays and Sundays too
calculateWorkingDays_everyDay(startDate, endDate) == Max(0, endDate - startDate + 1)

calculateWorkingDays(startDate, endDate) == WorkingDaysLoop(startDate, endDate, 0)

\* Math.floor in place of Math.ceil
RequiredDays_floor(totalWorkingDays, attendanceRule) == FloorDiv100(totalWorkingDays * attendanceRule)

RequiredDays(totalWorkingDays, attendanceRule) == CeilDiv100(totalWorkingDays * attendanceRule)

ActualLeavesAvailed(leavesAvailedAlready) == OrZero(leavesAvailedAlready)

CurrentAttendanceDays(totalWorkingDays, currentAttendancePercentage) ==
  IF currentAttendancePercentage # Undefined
    THEN FloorDiv100(totalWorkingDays * ValueOf(currentAttendancePercentage))
    ELSE 0

\* the leaves already availed not subtracted
RemainingDays_leavesIgnored(totalWorkingDays, currentAttendanceDays, actualLeavesAvailed) ==
  totalWorkingDays - currentAttendanceDays

RemainingDays(totalWorkingDays, currentAttendanceDays, actualLeavesAvailed) ==
  totalWorkingDays - currentAttendanceDays - actualLeavesAvailed

\* the days still required without the clamp at 0
RemainingRequiredDays_unclamped(requiredDays, currentAttendanceDays) ==
  requiredDays - currentAttendanceDays

RemainingRequiredDays(requiredDays, currentAttendanceDays) ==
  Max(0, requiredDays - currentAttendanceDays)

\* the days still required not subtracted
SafeLeaveDays_requiredIgnored(remainingDays, remainingRequiredDays) == Max(0, remainingDays)

SafeLeaveDays(remainingDays, remainingRequiredDays) ==
  Max(0, remainingDays - remainingRequiredDays)

\* a strict comparison
IsAtRisk_strict(safeLeaveDays) == safeLeaveDays < 0

IsAtRisk(safeLeaveDays) == safeLeaveDays <= 0

\* the local constants of the handler for request r
Arithmetic(r) ==
  LET totalWorkingDays      == calculateWorkingDays(r.startDate, r.endDate)
      requiredDays          == RequiredDays(totalWorkingDays, r.attendanceRule)
      actualLeavesAvailed   == ActualLeavesAvailed(r.leavesAvailedAlready)
      currentAttendanceDays == CurrentAttendanceDays(totalWorkingDays, r.currentAttendancePercentage)
      remainingDays         == RemainingDays(totalWorkingDays, currentAttendanceDays, actualLeavesAvailed)
      remainingRequiredDays == RemainingRequiredDays(requiredDays, currentAttendanceDays)
      safeLeaveDays         == SafeLeaveDays(remainingDays, remainingRequiredDays)
  IN  [ totalWorkingDays |-> totalWorkingDays, requiredDays |-> requiredDays,
        actualLeavesAvailed |-> actualLeavesAvailed,
        currentAttendanceDays |-> currentAttendanceDays,
        remainingDays |-> remainingDays, remainingRequiredDays |-> remainingRequiredDays,
        safeLeaveDays |-> safeLeaveDays,
        actualCurrentAttendancePercentage |-> OrZero(r.currentAttendancePercentage),
        projectedAttendancePercentage |-> r.attendanceRule,
        isAtRisk |-> IsAtRisk(safeLeaveDays) ]

(***************************************************************************)
(* calculate: recommendations, warnings and suggestedHolidayDates          *)
(* A message is <<label, a, b>>: the label that opens the string of the    *)
(* source and the two numbers interpolated into it (0 when it has none).   *)
(***************************************************************************)
Msg(label, a, b) == <<label, a, b>>

Text(label) == Msg(label, 0, 0)

When(cond, seq) == IF cond THEN seq ELSE <<>>

\* the guard of the personalised branch (line 421), of the risk assessment
\* (line 479) and of the buffer recommendations (line 486)
HasSafeDays(safeLeaveDays) == safeLeaveDays > 0

HighRiskZone(safeLeaveDays) == safeLeaveDays <= 5 /\ safeLeaveDays > 0

\* an inclusive threshold
HasBuffer_inclusive(safeLeaveDays) == safeLeaveDays >= 10

HasBuffer(safeLeaveDays) == safeLeaveDays > 10

Recommendations(r, safeLeaveDays) ==
  (IF HasSafeDays(safeLeaveDays)
     THEN <<Msg("AI Analysis", safeLeaveDays, r.attendanceRule)>>
          \o (IF r.userType = "student"
                THEN (IF r.institutionType = Some("university")
                        THEN <<Text("Smart Strategy")>>
                        ELSE When(r.institutionType = Some("college"), <<Text("Academic Tip")>>))
                     \o When(Truthy(r.examDates), <<Text("Exam Strategy")>>)
                     \o <<Text("Pro Tip")>>
                ELSE When(Truthy(r.projectDeadlines), <<Text("Work Strategy")>>)
                     \o <<Text("Corporate Tip"), Text("Wellness Advice")>>)
          \o (IF safeLeaveDays >= 15
                THEN <<Text("Excellent Buffer"), Text("Strategic Advice")>>
                ELSE IF safeLeaveDays >= 10
                  THEN <<Text("Good Flexibility"), Text("Balance Strategy")>>
                  ELSE When(safeLeaveDays >= 5, <<Text("Moderate Buffer"), Text("Smart Planning")>>))
     ELSE <<Text("Emergency Plan"), Text("Seek Support")>>)
  \o When(HighRiskZone(safeLeaveDays), <<Text("Micro-Management"), Text("Stay Alert")>>)
  \o When(HasBuffer(safeLeaveDays), <<Text("Safety Buffer"), Text("Creative Planning")>>)

Warnings(r, safeLeaveDays, remainingDays) ==
  (IF HasSafeDays(safeLeaveDays)
     THEN IF r.userType = "student"
            THEN When(Truthy(r.examDates), <<Text("Exam Alert")>>)
            ELSE When(Truthy(r.projectDeadlines), <<Text("Project Alert")>>)
     ELSE <<Msg("Critical Alert", remainingDays, r.attendanceRule), Text("Zero Tolerance")>>)
  \o When(HighRiskZone(safeLeaveDays), <<Text("High Risk Zone")>>)

\* the holiday seasons pushed whatever safeLeaveDays is
SuggestedHolidayDates_always(r, safeLeaveDays) ==
  IF r.userType = "student"
    THEN <<"Mid-semester break (optimal for mental health)",
           "Long weekends during festival seasons",
           "Post-exam celebration periods">>
    ELSE <<"Extended weekends around public holidays",
           "End of quarter periods (if workload permits)",
           "Summer vacation season (June-August)",
           "Year-end holiday season (December)">>

SuggestedHolidayDates(r, safeLeaveDays) ==
  IF HasSafeDays(safeLeaveDays)
    THEN IF r.userType = "student"
           THEN <<"Mid-semester break (optimal for mental health)",
                  "Long weekends during festival seasons",
                  "Post-exam celebration periods">>
           ELSE <<"Extended weekends around public holidays",
                  "End of quarter periods (if workload permits)",
                  "Summer vacation season (June-August)",
                  "Year-end holiday season (December)">>
    ELSE <<>>

(***************************************************************************)
(* Array.prototype.sort (stable) and slice                                 *)
(***************************************************************************)
\* order with x inserted at position at
InsertAt(order, x, at) == SubSeq(order, 1, at - 1) \o <<x>> \o SubSeq(order, at, Len(order))

\* the least member of a non-empty set of positions, otherwise the position past the end
FirstOf(positions, end) ==
  IF positions = {} THEN end + 1 ELSE CHOOSE i \in positions : \A j \in positions : i <= j

\* order, a sequence of indices of keys sorted by key, with index x inserted
\* before the first index whose key is greater than x's, else at the end
InsertSorted(keys, order, x) ==
  InsertAt(order, x, FirstOf({i \in 1..Len(order) : keys[x] < keys[order[i]]}, Len(order)))

RECURSIVE SortFrom(_, _, _)
SortFrom(keys, i, order) ==
  IF i > Len(keys) THEN order
  ELSE SortFrom(keys, i + 1, InsertSorted(keys, order, i))

\* s rearranged: element i of the result is s[order[i]]
Permute(s, order) == [i \in 1..Len(s) |-> s[order[i]]]

\* s.sort((a, b) => key(a) - key(b)), keys[i] being key(s[i]): ascending, ties keep their order
StableSort(s, keys) == Permute(s, SortFrom(keys, 1, <<>>))

\* s.slice(0, n)
SliceTo(s, n) == SubSeq(s, 1, Min(Len(s), Max(0, n)))

(***************************************************************************)
(* generateSuggestedLeaveDates                                             *)
(* A SuggestedLeaveDate is [date, reason, type, duration]; reason is       *)
(* <<festival name or "", text>>.  The description of the source is a      *)
(* fixed text of the same festival name and duration and is left out.      *)
(***************************************************************************)
Festivals ==
  << [name |-> "Diwali",    month |-> 10, approxDate |-> 15, duration |-> 3, priority |-> "high"],
     [name |-> "Christmas", month |-> 11, approxDate |-> 25, duration |-> 2, priority |-> "high"],
     [name |-> "New Year",  month |-> 0,  approxDate |-> 1,  duration |-> 2, priority |-> "high"],
     [name |-> "Holi",      month |-> 2,  approxDate |-> 15, duration |-> 2, priority |-> "medium"],
     [name |-> "Eid",       month |-> 4,  approxDate |-> 15, duration |-> 2, priority |-> "medium"],
     [name |-> "Dussehra",  month |-> 9,  approxDate |-> 15, duration |-> 2, priority |-> "medium"] >>

\* the date the festival loop probes for one festival
FestivalDate(currentDate, festival) ==
  MakeDate(getFullYear(currentDate), festival.month, festival.approxDate)

\* the suggestions the festival loop pushes for one festival (none or one)
FestivalSuggestionAt(festivalDate, currentDate, end, festival) ==
  IF festivalDate >= currentDate /\ festivalDate <= end
       /\ getDay(festivalDate) >= 1 /\ getDay(festivalDate) <= 5
    THEN IF getDay(festivalDate) = 1 \/ getDay(festivalDate) = 5
           THEN << [date |-> toISODate(festivalDate),
                    reason |-> <<festival.name, "Long Weekend Strategy">>,
                    type |-> "long_weekend", duration |-> festival.duration] >>
           ELSE << [date |-> toISODate(festivalDate),
                    reason |-> <<festival.name, "Cultural Celebration">>,
                    type |-> "festival", duration |-> festival.duration] >>
    ELSE <<>>

FestivalSuggestion(currentDate, end, festival) ==
  FestivalSuggestionAt(FestivalDate(currentDate, festival), currentDate, end, festival)

RECURSIVE FestivalLoop(_, _, _, _)
FestivalLoop(currentDate, end, i, suggestions) ==
  IF i > Len(Festivals) THEN suggestions
  ELSE FestivalLoop(currentDate, end, i + 1,
                    suggestions \o FestivalSuggestion(currentDate, end, Festivals[i]))

\* the loop running while suggestions.length <= safeLeaveDays
RECURSIVE MonthlyLoop_inclusive(_, _, _, _)
MonthlyLoop_inclusive(monthlyDate, end, safeLeaveDays, suggestions) ==
  IF monthlyDate <= end /\ Len(suggestions) <= safeLeaveDays
    THEN MonthlyLoop_inclusive(setMonth(monthlyDate, getMonth(monthlyDate) + 1), end, safeLeaveDays,
           IF getDay(monthlyDate) = 5
             THEN Append(suggestions,
                         [date |-> toISODate(monthlyDate),
                          reason |-> <<"", "AI-Optimized Wellness Break">>,
                          type |-> "long_weekend", duration |-> 1])
             ELSE suggestions)
    ELSE suggestions

\* the while loop over the 15th of each month
RECURSIVE MonthlyLoop(_, _, _, _)
MonthlyLoop(monthlyDate, end, safeLeaveDays, suggestions) ==
  IF monthlyDate <= end /\ Len(suggestions) < safeLeaveDays
    THEN MonthlyLoop(setMonth(monthlyDate, getMonth(monthlyDate) + 1), end, safeLeaveDays,
           IF getDay(monthlyDate) = 5
             THEN Append(suggestions,
                         [date |-> toISODate(monthlyDate),
                          reason |-> <<"", "AI-Optimized Wellness Break">>,
                          type |-> "long_weekend", duration |-> 1])
             ELSE suggestions)
    ELSE suggestions

\* start + (end - start) / 2, read through toISOString: the day the midpoint falls in
MidPoint(start, end) == start + ((end - start) \div 2)

\* the suggestions pushed by the userType branch; clock is the day of Date.now()
\* the hints tested for presence (!== undefined) instead of truthiness
UserTypeSuggestions_presence(currentDate, end, userType, examDates, projectDeadlines, clock) ==
  IF userType = "student"
    THEN When(examDates # Undefined,
              << [date |-> toISODate(clock + 30),
                  reason |-> <<"", "Post-Exam Recovery & Celebration">>,
                  type |-> "extended", duration |-> 3] >>)
         \o << [date |-> toISODate(MidPoint(currentDate, end)),
                reason |-> <<"", "Mid-Semester Mental Health Break">>,
                type |-> "extended", duration |-> 2] >>
    ELSE When(projectDeadlines # Undefined,
              << [date |-> toISODate(clock + 45),
                  reason |-> <<"", "Post-Project Decompression">>,
                  type |-> "extended", duration |-> 3] >>)
         \o LET quarterBreak == setMonth(currentDate, getMonth(currentDate) + 3)
            IN  When(quarterBreak <= end,
                     << [date |-> toISODate(quarterBreak),
                         reason |-> <<"", "Quarterly Strategic Break">>,
                         type |-> "extended", duration |-> 5] >>)

\* the quarterly break pushed only when it falls before end (quarterBreak < end)
UserTypeSuggestions_strictQuarter(currentDate, end, userType, examDates, projectDeadlines, clock) ==
  IF userType = "student"
    THEN When(Truthy(examDates),
              << [date |-> toISODate(clock + 30),
                  reason |-> <<"", "Post-Exam Recovery & Celebration">>,
                  type |-> "extended", duration |-> 3] >>)
         \o << [date |-> toISODate(MidPoint(currentDate, end)),
                reason |-> <<"", "Mid-Semester Mental Health Break">>,
                type |-> "extended", duration |-> 2] >>
    ELSE When(Truthy(projectDeadlines),
              << [date |-> toISODate(clock + 45),
                  reason |-> <<"", "Post-Project Decompression">>,
                  type |-> "extended", duration |-> 3] >>)
         \o LET quarterBreak == setMonth(currentDate, getMonth(currentDate) + 3)
            IN  When(quarterBreak < end,
                     << [date |-> toISODate(quarterBreak),
                         reason |-> <<"", "Quarterly Strategic Break">>,
                         type |-> "extended", duration |-> 5] >>)

UserTypeSuggestions(currentDate, end, userType, examDates, projectDeadlines, clock) ==
  IF userType = "student"
    THEN When(Truthy(examDates),
              << [date |-> toISODate(clock + 30),
                  reason |-> <<"", "Post-Exam Recovery & Celebration">>,
                  type |-> "extended", duration |-> 3] >>)
         \o << [date |-> toISODate(MidPoint(currentDate, end)),
                reason |-> <<"", "Mid-Semester Mental Health Break">>,
                type |-> "extended", duration |-> 2] >>
    ELSE When(Truthy(projectDeadlines),
              << [date |-> toISODate(clock + 45),
                  reason |-> <<"", "Post-Project Decompression">>,
                  type |-> "extended", duration |-> 3] >>)
         \o LET quarterBreak == setMonth(currentDate, getMonth(currentDate) + 3)
            IN  When(quarterBreak <= end,
                     << [date |-> toISODate(quarterBreak),
                         reason |-> <<"", "Quarterly Strategic Break">>,
                         type |-> "extended", duration |-> 5] >>)

\* the slice taken at safeLeaveDays itself
SuggestionLimit_all(safeLeaveDays) == safeLeaveDays

\* Math.floor(safeLeaveDays * 0.8)
SuggestionLimit(safeLeaveDays) == (safeLeaveDays * 4) \div 5

\* Math.floor(safeLeaveDays / 2), the limit of the first copy of the function (line 307)
SuggestionLimitV1(safeLeaveDays) == safeLeaveDays \div 2

\* the suggestions array before the final sort and slice
SuggestionCandidates(startDate, endDate, safeLeaveDays, userType, examDates, projectDeadlines, clock) ==
  MonthlyLoop(setDate(startDate, 15), endDate, safeLeaveDays,
              FestivalLoop(startDate, endDate, 1, <<>>))
  \o UserTypeSuggestions(startDate, endDate, userType, examDates, projectDeadlines, clock)

\* new Date(a.date).getTime() of every suggestion
DateKeys(suggestions) == [i \in 1..Len(suggestions) |-> parseISODate(suggestions[i].date)]

\* the final sort by date and slice
SortAndLimit(suggestions, safeLeaveDays) ==
  SliceTo(StableSort(suggestions, DateKeys(suggestions)),
          Min(Len(suggestions), SuggestionLimit(safeLeaveDays)))

\* the final sort and slice of the first copy of the function (lines 305-307)
SortAndLimitV1(suggestions, safeLeaveDays) ==
  SliceTo(StableSort(suggestions, DateKeys(suggestions)),
          Min(Len(suggestions), SuggestionLimitV1(safeLeaveDays)))

generateSuggestedLeaveDates(startDate, endDate, safeLeaveDays, userType, examDates, projectDeadlines, clock) ==
  IF safeLeaveDays <= 0 THEN <<>>
  ELSE SortAndLimit(SuggestionCandidates(startDate, endDate, safeLeaveDays, userType,
                                         examDates, projectDeadlines, clock),
                    safeLeaveDays)

(***************************************************************************)
(* generateOptimalLeaveDates                                               *)
(* A period is [startDate, endDate, safeDays, reason, impact, aiScore];    *)
(* description and benefits are fixed texts of the reason and are left out.*)
(***************************************************************************)
OptimalFestivals ==
  << [name |-> "Diwali",               month |-> 10, duration |-> 5,  aiScore |-> 95, impact |-> "low"],
     [name |-> "Christmas & New Year", month |-> 11, duration |-> 7,  aiScore |-> 98, impact |-> "low"],
     [name |-> "Summer Break",         month |-> 4,  duration |-> 10, aiScore |-> 90, impact |-> "medium"],
     [name |-> "Holi Celebration",     month |-> 2,  duration |-> 3,  aiScore |-> 85, impact |-> "low"] >>

OptimalFestivalPeriodAt(festivalDate, startDate, endDate, festival) ==
  When(festivalDate >= startDate /\ festivalDate <= endDate,
       << [startDate |-> toISODate(setDate(festivalDate,
                                           getDate(festivalDate) - festival.duration \div 2)),
           endDate |-> toISODate(setDate(festivalDate,
                                         getDate(festivalDate) + festival.duration \div 2)),
           safeDays |-> festival.duration,
           reason |-> <<festival.name, "Optimal Period">>,
           impact |-> festival.impact, aiScore |-> festival.aiScore] >>)

OptimalFestivalPeriod(startDate, endDate, festival) ==
  OptimalFestivalPeriodAt(MakeDate(getFullYear(startDate), festival.month, 15),
                          startDate, endDate, festival)

RECURSIVE OptimalFestivalLoop(_, _, _, _)
OptimalFestivalLoop(startDate, endDate, i, periods) ==
  IF i > Len(OptimalFestivals) THEN periods
  ELSE OptimalFestivalLoop(startDate, endDate, i + 1,
                           periods \o OptimalFestivalPeriod(startDate, endDate, OptimalFestivals[i]))

QuarterNames == <<"Q1", "Q2", "Q3", "Q4">>

\* one turn of the quarter loop
QuarterPeriod(quarterEnd, startDate, endDate, quarter) ==
  When(quarterEnd >= startDate /\ quarterEnd <= endDate,
       << [startDate |-> toISODate(quarterEnd),
           endDate |-> toISODate(quarterEnd + 5),
           safeDays |-> 5,
           reason |-> <<QuarterNames[quarter + 1], "Break">>,
           impact |-> "medium", aiScore |-> 80] >>)

RECURSIVE QuarterLoop(_, _, _, _)
QuarterLoop(startDate, endDate, quarter, periods) ==
  IF quarter >= 4 THEN periods
  ELSE QuarterLoop(startDate, endDate, quarter + 1,
         periods \o QuarterPeriod(MakeDate(getFullYear(startDate), quarter * 3 + 2, 25),
                                  startDate, endDate, quarter))

\* the mid-semester period around the midpoint of the period
MidSemesterPeriod(midSemester) ==
  [startDate |-> toISODate(midSemester - 3),
   endDate |-> toISODate(midSemester + 3),
   safeDays |-> 6,
   reason |-> <<"", "Mid-Semester Wellness Break">>,
   impact |-> "medium", aiScore |-> 88]

analyzeOptimalPeriods(startDate, endDate, userType, examDates, projectDeadlines) ==
  (IF userType = "employee"
     THEN QuarterLoop(startDate, endDate, 0, OptimalFestivalLoop(startDate, endDate, 1, <<>>))
     ELSE OptimalFestivalLoop(startDate, endDate, 1, <<>>))
  \o When(userType = "student", <<MidSemesterPeriod(MidPoint(startDate, endDate))>>)

OptimalLeaveDateOf(period) ==
  [startDate |-> period.startDate, endDate |-> period.endDate, duration |-> period.safeDays,
   reason |-> period.reason, impact |-> period.impact, aiScore |-> period.aiScore]

\* every period kept, whatever its safeDays
FittingPeriods_all(periods, safeLeaveDays) == periods

\* the forEach that keeps the periods whose safeDays fit
FittingPeriods(periods, safeLeaveDays) ==
  SelectSeq(periods, LAMBDA period : period.safeDays <= safeLeaveDays)

OptimalDatesOf(periods) == [i \in 1..Len(periods) |-> OptimalLeaveDateOf(periods[i])]

\* b.aiScore - a.aiScore orders by descending aiScore
ScoreKeys(optimalDates) == [i \in 1..Len(optimalDates) |-> 0 - optimalDates[i].aiScore]

\* the final sort by aiScore and slice
RankAndLimit(optimalDates) == SliceTo(StableSort(optimalDates, ScoreKeys(optimalDates)), 10)

generateOptimalLeaveDates(startDate, endDate, safeLeaveDays, userType, examDates, projectDeadlines, attendanceRule) ==
  IF safeLeaveDays <= 0 THEN <<>>
  ELSE RankAndLimit(OptimalDatesOf(FittingPeriods(
         analyzeOptimalPeriods(startDate, endDate, userType, examDates, projectDeadlines),
         safeLeaveDays)))

(***************************************************************************)
(* calculate: the response for request r when the clock reads day clock    *)
(***************************************************************************)
\* the response assembled from the local constants a
Response(r, a, clock) ==
  [ totalDays                     |-> a.totalWorkingDays,
    requiredDays                  |-> a.requiredDays,
    safeLeaveDays                 |-> Max(0, a.safeLeaveDays),
    currentAttendancePercentage   |-> a.actualCurrentAttendancePercentage,
    projectedAttendancePercentage |-> a.projectedAttendancePercentage,
    isAtRisk                      |-> a.isAtRisk,
    recommendations               |-> Recommendations(r, a.safeLeaveDays),
    warnings                      |-> Warnings(r, a.safeLeaveDays, a.remainingDays),
    suggestedHolidayDates         |-> SuggestedHolidayDates(r, a.safeLeaveDays),
    suggestedLeaveDates           |-> generateSuggestedLeaveDates(r.startDate, r.endDate,
                                        a.safeLeaveDays, r.userType, r.examDates,
                                        r.projectDeadlines, clock),
    optimalLeaveDates             |-> generateOptimalLeaveDates(r.startDate, r.endDate,
                                        a.safeLeaveDays, r.userType, r.examDates,
                                        r.projectDeadlines, r.attendanceRule) ]

\* the difference returned without either clamp
calculate_unclamped(r, clock) ==
  LET a == Arithmetic(r)
  IN  [Response(r, a, clock) EXCEPT !.safeLeaveDays = a.remainingDays - a.remainingRequiredDays]

\* requiredDays rounded down for employees
calculate_byUserType(r, clock) ==
  LET a == Arithmetic(r)
  IN  Response(r,
               IF r.userType = "employee"
                 THEN [a EXCEPT !.requiredDays = FloorDiv100(a.totalWorkingDays * r.attendanceRule)]
                 ELSE a,
               clock)

\* working days counted from today when the period has already begun
calculate_fromToday(r, clock) ==
  Response(r, Arithmetic([r EXCEPT !.startDate = Max(r.startDate, clock)]), clock)

calculate(r, clock) == Response(r, Arithmetic(r), clock)

(***************************************************************************)
(* getPublicHolidays (src/backend/calendar/integration.ts)                 *)
(* A PublicHoliday is [date, name, type] and a LongWeekendSuggestion is    *)
(* [startDate, endDate, holidayName, leaveDaysRequired, totalDaysOff,      *)
(* description]; dates are day numbers.  The description of a holiday is a *)
(* fixed text of its name and type and is left out; the description of a   *)
(* suggestion is kept as the advice that opens it, the holiday's name that *)
(* follows being holidayName.                                              *)
(***************************************************************************)
\* holidaysByYear[2024]
HolidayTable2024 ==
  << [month |-> 0,  date |-> 1,  name |-> "New Year's Day",   type |-> "national"],
     [month |-> 0,  date |-> 26, name |-> "Republic Day",     type |-> "national"],
     [month |-> 2,  date |-> 25, name |-> "Holi",             type |-> "religious"],
     [month |-> 3,  date |-> 17, name |-> "Ram Navami",       type |-> "religious"],
     [month |-> 4,  date |-> 1,  name |-> "Labour Day",       type |-> "national"],
     [month |-> 7,  date |-> 15, name |-> "Independence Day", type |-> "national"],
     [month |-> 8,  date |-> 7,  name |-> "Ganesh Chaturthi", type |-> "religious"],
     [month |-> 9,  date |-> 2,  name |-> "Gandhi Jayanti",   type |-> "national"],
     [month |-> 9,  date |-> 24, name |-> "Dussehra",         type |-> "religious"],
     [month |-> 10, date |-> 12, name |-> "Diwali",           type |-> "religious"],
     [month |-> 11, date |-> 25, name |-> "Christmas Day",    type |-> "religious"] >>

\* holidaysByYear[2025]
HolidayTable2025 ==
  << [month |-> 0,  date |-> 1,  name |-> "New Year's Day",   type |-> "national"],
     [month |-> 0,  date |-> 26, name |-> "Republic Day",     type |-> "national"],
     [month |-> 2,  date |-> 14, name |-> "Holi",             type |-> "religious"],
     [month |-> 3,  date |-> 6,  name |-> "Ram Navami",       type |-> "religious"],
     [month |-> 4,  date |-> 1,  name |-> "Labour Day",       type |-> "national"],
     [month |-> 7,  date |-> 15, name |-> "Independence Day", type |-> "national"],
     [month |-> 7,  date |-> 27, name |-> "Ganesh Chaturthi", type |-> "religious"],
     [month |-> 9,  date |-> 2,  name |-> "Gandhi Jayanti",   type |-> "national"],
     [month |-> 9,  date |-> 12, name |-> "Dussehra",         type |-> "religious"],
     [month |-> 10, date |-> 1,  name |-> "Diwali",           type |-> "religious"],
     [month |-> 11, date |-> 25, name |-> "Christmas Day",    type |-> "religious"] >>

\* the table of the pre-populated year nearest to y
HolidayTable_nearest(y) ==
  IF y <= 2024 THEN HolidayTable2024 ELSE HolidayTable2025

\* holidaysByYear[y] || holidaysByYear[2024]
HolidayTable(y) ==
  IF y = 2024 THEN HolidayTable2024 ELSE IF y = 2025 THEN HolidayTable2025 ELSE HolidayTable2024

\* the entries of a table as holidays of year y
TableHolidays(table, y) ==
  [i \in 1..Len(table) |->
     [date |-> MakeDate(y, table[i].month, table[i].date),
      name |-> table[i].name, type |-> table[i].type]]

\* the whole list, with no test of the period
InsidePeriod_unfiltered(list, startDate, endDate) == list

\* the holidays of a list that fall inside the period
InsidePeriod(list, startDate, endDate) ==
  SelectSeq(list, LAMBDA holiday : holiday.date >= startDate /\ holiday.date <= endDate)

\* one forEach of getFallbackHolidays, over the table of year y
FallbackYear(y, startDate, endDate) ==
  InsidePeriod(TableHolidays(HolidayTable(y), y), startDate, endDate)

getFallbackHolidays(startDate, endDate) ==
  FallbackYear(getFullYear(startDate), startDate, endDate)
  \o When(getFullYear(endDate) > getFullYear(startDate),
          FallbackYear(getFullYear(startDate) + 1, startDate, endDate))

\* what one call of the provider comes to: fetch or json() throws, the response is
\* not ok, or it is ok and carries a list of {date, name, global}
Thrown == [kind |-> "thrown"]

NotOk == [kind |-> "not ok"]

Ok(holidaysData) == [kind |-> "ok", holidaysData |-> holidaysData]

\* the entries of holidaysData as holidays
DataHolidays(holidaysData) ==
  [i \in 1..Len(holidaysData) |->
     [date |-> parseISODate(holidaysData[i].date),
      name |-> holidaysData[i].name,
      type |-> IF holidaysData[i].global THEN "national" ELSE "public"]]

\* the holidays one turn of the loop of fetchPublicHolidays pushes
FetchedHolidays(outcome, startDate, endDate) ==
  IF outcome.kind = "ok"
    THEN InsidePeriod(DataHolidays(outcome.holidaysData), startDate, endDate)
    ELSE <<>>

\* the fallback holidays added to whatever the loop has pushed
fetchPublicHolidays_filled(list, startDate, endDate) ==
  list \o getFallbackHolidays(startDate, endDate)

\* what fetchPublicHolidays returns once its loop has pushed the holidays of list
fetchPublicHolidays(list, startDate, endDate) ==
  IF Len(list) > 0 THEN list ELSE getFallbackHolidays(startDate, endDate)

\* the days from startDate to endDate in order
DaysOfPeriod(startDate, endDate) ==
  [i \in 1..Max(0, endDate - startDate + 1) |-> startDate + i - 1]

\* the Sundays of the period only
generateWeekends_sundaysOnly(startDate, endDate) ==
  SelectSeq(DaysOfPeriod(startDate, endDate), LAMBDA d : getDay(d) = 0)

generateWeekends(startDate, endDate) ==
  SelectSeq(DaysOfPeriod(startDate, endDate), LAMBDA d : getDay(d) = 0 \/ getDay(d) = 6)

\* date.setDate(date.getDate() + n)
addDays(date, n) == setDate(date, getDate(date) + n)

LongWeekend(first, last, holiday, leaveDaysRequired, totalDaysOff, description) ==
  [startDate |-> first, endDate |-> last, holidayName |-> holiday.name,
   leaveDaysRequired |-> leaveDaysRequired, totalDaysOff |-> totalDaysOff,
   description |-> description]

\* the window begun at startDate when the leave day comes before it
LeaveBefore_clamped(leaveDay, holiday, startDate, leaveDaysRequired, totalDaysOff, description) ==
  <<LongWeekend(Max(leaveDay, startDate), holiday.date, holiday, leaveDaysRequired,
                totalDaysOff, description)>>

\* the leave day before the holiday, pushed when it is not before startDate
LeaveBefore(leaveDay, holiday, startDate, leaveDaysRequired, totalDaysOff, description) ==
  When(leaveDay >= startDate,
       <<LongWeekend(leaveDay, holiday.date, holiday, leaveDaysRequired, totalDaysOff,
                     description)>>)

\* the last leave day after the holiday, pushed when it is not after endDate
LeaveAfter(leaveDay, holiday, endDate, leaveDaysRequired, totalDaysOff, description) ==
  When(leaveDay <= endDate,
       <<LongWeekend(holiday.date, leaveDay, holiday, leaveDaysRequired, totalDaysOff,
                     description)>>)

\* a rule for the Saturday holiday too: the Friday before it
LongWeekendFor_saturdayRule(holiday, dayOfWeek, startDate, endDate) ==
  IF dayOfWeek = 1
    THEN LeaveBefore(addDays(holiday.date, 0 - 3), holiday, startDate, 1, 4,
                     "Take Friday off before")
  ELSE IF dayOfWeek = 5
    THEN LeaveAfter(addDays(holiday.date, 3), holiday, endDate, 1, 4,
                    "Take Monday off after")
  ELSE IF dayOfWeek = 2
    THEN LeaveBefore(addDays(holiday.date, 0 - 1), holiday, startDate, 1, 4,
                     "Take Monday off before")
  ELSE IF dayOfWeek = 4
    THEN LeaveAfter(addDays(holiday.date, 1), holiday, endDate, 1, 4,
                    "Take Friday off after")
  ELSE IF dayOfWeek = 3
    THEN LeaveAfter(addDays(holiday.date, 2), holiday, endDate, 2, 5,
                    "Take Thursday and Friday off after")
  ELSE IF dayOfWeek = 6
    THEN LeaveBefore(addDays(holiday.date, 0 - 1), holiday, startDate, 1, 3,
                     "Take Friday off before")
  ELSE <<>>

\* the Monday rule reaching back two days only, to the Saturday
LongWeekendFor_twoDaysBack(holiday, dayOfWeek, startDate, endDate) ==
  IF dayOfWeek = 1
    THEN LeaveBefore(addDays(holiday.date, 0 - 2), holiday, startDate, 1, 4,
                     "Take Friday off before")
  ELSE IF dayOfWeek = 5
    THEN LeaveAfter(addDays(holiday.date, 3), holiday, endDate, 1, 4,
                    "Take Monday off after")
  ELSE IF dayOfWeek = 2
    THEN LeaveBefore(addDays(holiday.date, 0 - 1), holiday, startDate, 1, 4,
                     "Take Monday off before")
  ELSE IF dayOfWeek = 4
    THEN LeaveAfter(addDays(holiday.date, 1), holiday, endDate, 1, 4,
                    "Take Friday off after")
  ELSE IF dayOfWeek = 3
    THEN LeaveAfter(addDays(holiday.date, 2), holiday, endDate, 2, 5,
                    "Take Thursday and Friday off after")
  ELSE <<>>

\* the suggestions one holiday pushes, by its day of the week (none or one)
LongWeekendFor(holiday, dayOfWeek, startDate, endDate) ==
  IF dayOfWeek = 1
    THEN LeaveBefore(addDays(holiday.date, 0 - 3), holiday, startDate, 1, 4,
                     "Take Friday off before")
  ELSE IF dayOfWeek = 5
    THEN LeaveAfter(addDays(holiday.date, 3), holiday, endDate, 1, 4,
                    "Take Monday off after")
  ELSE IF dayOfWeek = 2
    THEN LeaveBefore(addDays(holiday.date, 0 - 1), holiday, startDate, 1, 4,
                     "Take Monday off before")
  ELSE IF dayOfWeek = 4
    THEN LeaveAfter(addDays(holiday.date, 1), holiday, endDate, 1, 4,
                    "Take Friday off after")
  ELSE IF dayOfWeek = 3
    THEN LeaveAfter(addDays(holiday.date, 2), holiday, endDate, 2, 5,
                    "Take Thursday and Friday off after")
  ELSE <<>>

\* holidays.forEach of generateLongWeekendSuggestions
RECURSIVE LongWeekendLoop(_, _, _, _, _)
LongWeekendLoop(list, i, startDate, endDate, suggestions) ==
  IF i > Len(list) THEN suggestions
  ELSE LongWeekendLoop(list, i + 1, startDate, endDate,
         suggestions \o LongWeekendFor(list[i], getDay(list[i].date), startDate, endDate))

\* a.startDate.getTime() of every suggestion
StartKeys(suggestions) == [i \in 1..Len(suggestions) |-> suggestions[i].startDate]

\* the suggestions returned in the order they were pushed
SortByStart_asPushed(suggestions) == suggestions

\* suggestions.sort((a, b) => a.startDate.getTime() - b.startDate.getTime())
SortByStart(suggestions) == StableSort(suggestions, StartKeys(suggestions))

generateLongWeekendSuggestions(list, startDate, endDate) ==
  SortByStart(LongWeekendLoop(list, 1, startDate, endDate, <<>>))

\* the response built from the holidays fetchPublicHolidays returned
PublicHolidaysResponse(list, startDate, endDate) ==
  [ holidays |-> list,
    weekends |-> generateWeekends(startDate, endDate),
    suggestedLongWeekends |-> generateLongWeekendSuggestions(list, startDate, endDate) ]

(***************************************************************************)
(* Requests                                                                *)
(***************************************************************************)
UserTypes == {"student", "employee"}

\* Monday 2025-01-06, the start of the period of the arithmetic specification
ArithStart == DaysFromCivil(2025, 1, 6)

\* the periods of the full specification: four weeks of January 2025, and five
\* weeks across the turn of the year (Christmas 2024 is a Wednesday)
Periods ==
  { <<DaysFromCivil(2025, 1, 6), DaysFromCivil(2025, 1, 31)>>,
    <<DaysFromCivil(2024, 12, 16), DaysFromCivil(2025, 1, 17)>> }

\* the days Date.now() may fall in when a request arrives
ClockStarts == {DaysFromCivil(2024, 12, 1), DaysFromCivil(2025, 3, 1)}

Hints == {Undefined, Some(""), Some("given")}

InstitutionTypes == {Undefined, Some("university"), Some("college"), Some("school")}

Request(startDate, endDate, attendanceRule, userType, pct, leaves, institutionType, examDates, projectDeadlines) ==
  [ startDate |-> startDate, endDate |-> endDate, attendanceRule |-> attendanceRule,
    userType |-> userType, currentAttendancePercentage |-> pct,
    leavesAvailedAlready |-> leaves, institutionType |-> institutionType,
    examDates |-> examDates, projectDeadlines |-> projectDeadlines ]

\* requests that vary the context hints, over a few arithmetic inputs
FullRequests ==
  { Request(p[1], p[2], rule, ut, pct, leaves, inst, exam, proj) :
      p \in Periods, rule \in {50, 75}, ut \in UserTypes,
      pct \in {Undefined, Some(50)}, leaves \in {Undefined, Some(2)},
      inst \in InstitutionTypes, exam \in Hints, proj \in Hints }

\* requests that vary the arithmetic inputs, without context hints
ArithRequests ==
  { Request(ArithStart, ArithStart + span, rule, ut, pct, leaves, Undefined, Undefined, Undefined) :
      span \in 0..MaxSpan, rule \in 1..100, ut \in UserTypes,
      pct \in {Undefined, Some(40), Some(100)},
      leaves \in {Undefined} \cup {Some(n) : n \in 0..MaxLeaves} }

\* requests that vary the period: every weekday as startDate, every length up to MaxSpan
DateRequests ==
  { Request(ArithStart + offset, ArithStart + offset + span, 75, ut, Undefined, Undefined,
            Undefined, Undefined, Undefined) :
      offset \in 0..6, span \in 0..MaxSpan, ut \in UserTypes }

\* the start dates of the planning specification: Monday 2024-01-01 (New Year on a
\* Monday), Monday 2024-03-18 (after Friday the 15th), Friday 2024-11-01 (periods
\* that run into 2025), Saturday 2024-11-30 (no 30th three months later) and
\* Monday 2025-08-04 (Diwali 2025 on a Saturday)
PlanStarts ==
  { DaysFromCivil(2024, 1, 1), DaysFromCivil(2024, 3, 18), DaysFromCivil(2024, 11, 1),
    DaysFromCivil(2024, 11, 30), DaysFromCivil(2025, 8, 4) }

\* the end dates tried with a start date: after 1 to MaxPlanMonths steps of 30 days,
\* and the day three months after the start
PlanEnds(start) ==
  {start + 30 * k : k \in 1..MaxPlanMonths} \cup {setMonth(start, getMonth(start) + 3)}

\* the periods of the planning specification
PlanPeriods == UNION { {<<start, end>> : end \in PlanEnds(start)} : start \in PlanStarts }

\* requests that vary the period over months and years, with rules that leave from
\* no safe day to a few dozen
PlanRequests ==
  { Request(p[1], p[2], rule, ut, Undefined, leaves, Undefined, hint, hint) :
      p \in PlanPeriods, rule \in 94..100, ut \in UserTypes,
      leaves \in {Undefined, Some(1)}, hint \in Hints }

\* attendance rules inside and outside 1..100
AnyRules == {0 - 50, 0 - 1, 0, 75, 101, 150}

\* requests nothing validates: endDate up to MaxBack days before startDate or up to
\* MaxBack days after it, with any of the rules above
UnvalidatedRequests ==
  { Request(ArithStart + offset, ArithStart + offset + span, rule, ut, pct, leaves,
            Undefined, Undefined, Undefined) :
      offset \in {0, 5}, span \in (0 - MaxBack)..MaxBack, rule \in AnyRules, ut \in UserTypes,
      pct \in {Undefined, Some(40), Some(100)}, leaves \in {Undefined, Some(0), Some(3)} }

(***************************************************************************)
(* The endpoint: one request, served once; the clock runs until then       *)
(***************************************************************************)
\* no getPublicHolidays request is being served
CalendarIdle == fetchYear = 0 /\ fetched = <<>> /\ calls = <<>>

Init ==
  /\ req \in FullRequests
  /\ now \in ClockStarts
  /\ pc = "pending"
  /\ res = <<>>
  /\ CalendarIdle
  /\ openAIKey = Undefined

InitArith ==
  /\ req \in ArithRequests
  /\ now \in {c + MaxTicks - 1 : c \in {DaysFromCivil(2024, 12, 1)}}
  /\ pc = "pending"
  /\ res = <<>>
  /\ CalendarIdle
  /\ openAIKey = Undefined

InitDates ==
  /\ req \in DateRequests
  /\ now \in ClockStarts
  /\ pc = "pending"
  /\ res = <<>>
  /\ CalendarIdle
  /\ openAIKey = Undefined

InitPlan ==
  /\ req \in PlanRequests
  /\ now \in {c + MaxTicks - 1 : c \in {DaysFromCivil(2024, 12, 1)}}
  /\ pc = "pending"
  /\ res = <<>>
  /\ CalendarIdle
  /\ openAIKey = Undefined

\* the percentages of attendance so far of the monotonicity specification
PctSteps == {0, 30, 60, 75, 90, 100}

\* requests over every rule and every length of period, with the attendance so far
\* absent or at one of the steps, and no or MaxLeaves leaves availed
MonotoneRequests ==
  { Request(ArithStart, ArithStart + span, rule, ut, pct, leaves, Undefined, Undefined, Undefined) :
      span \in 0..MaxSpan, rule \in 1..100, ut \in UserTypes,
      pct \in {Undefined} \cup {Some(p) : p \in PctSteps},
      leaves \in {Undefined, Some(MaxLeaves)} }

InitMonotone ==
  /\ req \in MonotoneRequests
  /\ now \in {c + MaxTicks - 1 : c \in {DaysFromCivil(2024, 12, 1)}}
  /\ pc = "pending"
  /\ res = <<>>
  /\ CalendarIdle
  /\ openAIKey = Undefined

InitUnvalidated ==
  /\ req \in UnvalidatedRequests
  /\ now \in {c + MaxTicks - 1 : c \in {DaysFromCivil(2024, 12, 1)}}
  /\ pc = "pending"
  /\ res = <<>>
  /\ CalendarIdle
  /\ openAIKey = Undefined

\* a day passes before the request is handled
Tick ==
  /\ pc = "pending"
  /\ \E c \in ClockStarts : c <= now /\ now < c + MaxTicks
  /\ now' = now + 1
  /\ UNCHANGED <<req, pc, res>>
  /\ UNCHANGED <<calendarVars, openAIKey>>

\* POST /attendance/calculate
Calculate ==
  /\ pc = "pending"
  /\ res' = <<calculate(req, now)>>
  /\ pc' = "done"
  /\ UNCHANGED <<req, now>>
  /\ UNCHANGED <<calendarVars, openAIKey>>

Next == Tick \/ Calculate

Spec == Init /\ [][Next]_vars

SpecArith == InitArith /\ [][Next]_vars

SpecDates == InitDates /\ [][Next]_vars

SpecPlan == InitPlan /\ [][Next]_vars

SpecUnvalidated == InitUnvalidated /\ [][Next]_vars

SpecMonotone == InitMonotone /\ [][Next]_vars

(***************************************************************************)
(* The endpoint POST /calendar/public-holidays: one request; the loop of   *)
(* fetchPublicHolidays calls the provider once a turn, then the response   *)
(* is built                                                                *)
(***************************************************************************)
\* short periods, for which the provider may list any day from the day before
\* startDate to the day after endDate: two weeks of January 2025 beginning on a
\* Monday or Tuesday and ending on a Wednesday, Thursday or Sunday, the January of
\* the end-to-end scenario, and five days across the turn of the year
ListedPeriods ==
  { <<DaysFromCivil(2025, 1, d1), DaysFromCivil(2025, 1, d2)>> :
      d1 \in {6, 7}, d2 \in {15, 16, 19} }
  \cup { <<DaysFromCivil(2025, 1, 1), DaysFromCivil(2025, 1, 31)>>,
         <<DaysFromCivil(2024, 12, 30), DaysFromCivil(2025, 1, 3)>> }

\* long periods, asked for a country the provider has no holidays for: six weeks
\* across the turn of the year, the year 2025, a quarter of 2026, twenty months
\* from June 2024, two months of 2023 and four months from December 2025
UnlistedPeriods ==
  { <<DaysFromCivil(2024, 12, 20), DaysFromCivil(2025, 1, 31)>>,
    <<DaysFromCivil(2025, 1, 1), DaysFromCivil(2025, 12, 31)>>,
    <<DaysFromCivil(2026, 1, 1), DaysFromCivil(2026, 3, 31)>>,
    <<DaysFromCivil(2024, 6, 1), DaysFromCivil(2026, 2, 1)>>,
    <<DaysFromCivil(2023, 3, 1), DaysFromCivil(2023, 4, 30)>>,
    <<DaysFromCivil(2025, 12, 1), DaysFromCivil(2026, 3, 31)>> }

HolidaysRequest(startDate, endDate, country) ==
  [startDate |-> startDate, endDate |-> endDate, country |-> country]

HolidayRequests ==
  { HolidaysRequest(p[1], p[2], country) :
      p \in ListedPeriods, country \in {Undefined, Some("IN")} }
  \cup { HolidaysRequest(p[1], p[2], Some("XX")) : p \in UnlistedPeriods }

\* const { country = "IN" } = req
CountryOf(r) == IF r.country = Undefined THEN "IN" ELSE ValueOf(r.country)

\* the holidaysData of a response that lists the given days in the given order
HolidaysData(days) ==
  [i \in 1..Len(days) |->
     [date |-> toISODate(days[i]),
      name |-> IF days[i] % 2 = 0 THEN "National Day" ELSE "Regional Day",
      global |-> days[i] % 2 = 0]]

\* the days of year y the provider may list for request r
ListedDays(r, y) ==
  IF CountryOf(r) = "IN"
    THEN {d \in (r.startDate - 1)..(r.endDate + 1) : getFullYear(d) = y}
    ELSE {}

\* what a call of the provider for year y may come to
ProviderOutcomes(r, y) ==
  {Thrown, NotOk}
  \cup { Ok(HolidaysData(days)) :
           days \in UNION {[1..n -> ListedDays(r, y)] : n \in 0..MaxListed} }

\* the loop going on to every other year
NextFetchYear_everyOther(y) == y + 2

\* year++
NextFetchYear(y) == y + 1

\* one fetch of PublicHolidays/${year}/${country} and what it came to
ProviderCall(y, country, outcome) == [year |-> y, country |-> country, outcome |-> outcome]

InitHolidays ==
  /\ req \in HolidayRequests
  /\ now = DaysFromCivil(2024, 12, 1)
  /\ pc = "fetching"
  /\ res = <<>>
  /\ fetchYear = getFullYear(req.startDate)
  /\ fetched = <<>>
  /\ calls = <<>>
  /\ openAIKey = Undefined

\* one turn of the loop of fetchPublicHolidays
FetchYear ==
  /\ pc = "fetching"
  /\ fetchYear <= getFullYear(req.endDate)
  /\ \E outcome \in ProviderOutcomes(req, fetchYear) :
       /\ fetched' = fetched \o FetchedHolidays(outcome, req.startDate, req.endDate)
       /\ calls' = Append(calls, ProviderCall(fetchYear, CountryOf(req), outcome))
  /\ fetchYear' = NextFetchYear(fetchYear)
  /\ UNCHANGED <<req, now, pc, res, openAIKey>>

\* the loop is over: fetchPublicHolidays returns and getPublicHolidays responds
Respond ==
  /\ pc = "fetching"
  /\ fetchYear > getFullYear(req.endDate)
  /\ res' = <<PublicHolidaysResponse(
                 fetchPublicHolidays(fetched, req.startDate, req.endDate),
                 req.startDate, req.endDate)>>
  /\ pc' = "done"
  /\ UNCHANGED <<req, now, fetchYear, fetched, calls, openAIKey>>

NextHolidays == FetchYear \/ Respond

SpecHolidays == InitHolidays /\ [][NextHolidays]_vars

(***************************************************************************)
(* The endpoint POST /ai/chat (chat.ts): one request.  An answer is kept   *)
(* as where its text comes from, the completion's content, the apology     *)
(* that stands in for a missing content, or the rule-based answer to the   *)
(* message; the follow-up suggestions are left out.                        *)
(***************************************************************************)
ChatRequest(message, userType) == [message |-> message, userType |-> userType]

ChatRequests ==
  { ChatRequest(message, userType) :
      message \in {"how many leaves can I take", "balance"}, userType \in UserTypes }

\* the secret OpenAIKey: not configured, empty, or a key
OpenAIKeys == {Undefined, Some(""), Some("sk-key")}

\* an ok response of the completions API carrying data
Completed(data) == [kind |-> "ok", data |-> data]

\* the data of an ok response: without choices, with no choice, with a choice
\* without content, with a choice with content
Completions ==
  { [choices |-> Undefined],
    [choices |-> Some(<<>>)],
    [choices |-> Some(<<[content |-> Undefined]>>)],
    [choices |-> Some(<<[content |-> Some("advice")]>>)] }

\* what the call of the completions API may come to
CompletionOutcomes == {Thrown, NotOk} \cup {Completed(data) : data \in Completions}

\* one fetch of chat/completions and what it came to
CompletionCall(apiKey, message, outcome) ==
  [authorization |-> apiKey, message |-> message, outcome |-> outcome]

getRuleBasedResponse(r) ==
  [response |-> <<"rule-based answer", r.userType, r.message>>]

\* fetch or json() throws, the response is not ok, or data.choices[0] throws
CompletionFails(outcome) ==
  \/ outcome.kind # "ok"
  \/ outcome.data.choices = Undefined

\* data.choices[0]?.message?.content || "I'm sorry, ..."
aiResponse(data) ==
  IF Len(ValueOf(data.choices)) > 0 /\ Truthy(ValueOf(data.choices)[1].content)
    THEN <<"completion", ValueOf(ValueOf(data.choices)[1].content)>>
    ELSE <<"apology">>

\* the response after the call: the catch of line 93, or the completion's answer
ChatResponse(r, outcome) ==
  IF CompletionFails(outcome)
    THEN getRuleBasedResponse(r)
    ELSE [response |-> aiResponse(outcome.data)]

InitChat ==
  /\ req \in ChatRequests
  /\ now = DaysFromCivil(2024, 12, 1)
  /\ pc = "chatting"
  /\ res = <<>>
  /\ CalendarIdle
  /\ openAIKey \in OpenAIKeys

\* the handler of /ai/chat
Chat ==
  /\ pc = "chatting"
  /\ IF ~Truthy(openAIKey)
       THEN /\ res' = <<getRuleBasedResponse(req)>>
            /\ calls' = calls
       ELSE \E outcome \in CompletionOutcomes :
              /\ calls' = Append(calls, CompletionCall(ValueOf(openAIKey), req.message, outcome))
              /\ res' = <<ChatResponse(req, outcome)>>
  /\ pc' = "done"
  /\ UNCHANGED <<req, now, fetchYear, fetched, openAIKey>>

(***************************************************************************)
(* The two endpoints that call an external service: one request to either  *)
(***************************************************************************)
InitOutbound == InitHolidays \/ InitChat

NextOutbound == FetchYear \/ Respond \/ Chat

SpecOutbound == InitOutbound /\ [][NextOutbound]_vars

(***************************************************************************)
(* Properties of the calculate response                                    *)
(***************************************************************************)
Done == pc = "done" /\ Len(res) = 1

\* the message with the given label is in the sequence
HasMsg(seq, label) == \E i \in 1..Len(seq) : seq[i][1] = label

\* d is a Monday to Friday, counted from the Monday ArithStart
IsMonToFri(d) == (d - ArithStart) % 7 < 5

\* the six numeric fields of a response
Numeric(out) ==
  <<out.totalDays, out.requiredDays, out.safeLeaveDays, out.currentAttendancePercentage,
    out.projectedAttendancePercentage, out.isAtRisk>>

\* the period, rule and attendance state of the end-to-end scenario
IsScenario(r) ==
  /\ r.startDate = DaysFromCivil(2025, 1, 6) /\ r.endDate = DaysFromCivil(2025, 1, 31)
  /\ r.attendanceRule = 75
  /\ r.currentAttendancePercentage = Undefined
  /\ r.leavesAvailedAlready = Some(0)

\* C1: with leavesAvailedAlready >= 0, safeLeaveDays = max(0, remainingDays -
\* remainingRequiredDays), where currentAttendanceDays is the floor of totalDays *
\* percentage / 100 (0 without a percentage), remainingDays = totalDays -
\* currentAttendanceDays - leavesAvailedAlready is not clamped (the critical alert
\* quotes it as it is) and remainingRequiredDays = max(0, requiredDays -
\* currentAttendanceDays); the scenario of 20 working days at rule 75 gives 15 and 5.
C1_SafeLeaveDays ==
  Done /\ OrZero(req.leavesAvailedAlready) >= 0 =>
    LET out    == res[1]
        leaves == OrZero(req.leavesAvailedAlready)
        pct    == req.currentAttendancePercentage
    IN  /\ \E cur \in 0..out.totalDays :
             /\ IF pct = Undefined THEN cur = 0
                ELSE /\ 100 * cur <= out.totalDays * ValueOf(pct)
                     /\ out.totalDays * ValueOf(pct) < 100 * (cur + 1)
             /\ out.safeLeaveDays =
                  Max(0, (out.totalDays - cur - leaves) - Max(0, out.requiredDays - cur))
             /\ \A i \in 1..Len(out.warnings) :
                  out.warnings[i][1] = "Critical Alert" =>
                    out.warnings[i][2] = out.totalDays - cur - leaves
        /\ IsScenario(req) =>
             out.totalDays = 20 /\ out.requiredDays = 15 /\ out.safeLeaveDays = 5

\* the scenario has been served, and a request whose remainingDays is negative too
C1_Witness == Done /\ IsScenario(req) /\ res[1].safeLeaveDays = 5

C1_WitnessNegative ==
  Done /\ HasMsg(res[1].warnings, "Critical Alert")
       /\ \E i \in 1..Len(res[1].warnings) : res[1].warnings[i][2] < 0

\* C2: for startDate <= endDate, totalDays is the number of days of
\* [startDate, endDate] that are a Monday to Friday; a Monday-to-Friday span
\* gives 5 and a Saturday-to-Sunday span gives 0.
C2_TotalDays ==
  Done /\ req.startDate <= req.endDate =>
    /\ res[1].totalDays = Cardinality({d \in req.startDate..req.endDate : IsMonToFri(d)})
    /\ (req.startDate = ArithStart /\ req.endDate = ArithStart + 4 => res[1].totalDays = 5)
    /\ (req.startDate = ArithStart + 5 /\ req.endDate = ArithStart + 6 => res[1].totalDays = 0)

\* a period from a Friday to the Monday after it: two working days around a weekend
C2_Witness ==
  Done /\ req.startDate = ArithStart + 4 /\ req.endDate = ArithStart + 7 /\ res[1].totalDays = 2

\* C3: for attendanceRule in 1..100, requiredDays is the least integer r with
\* 100 * r >= totalDays * attendanceRule; 10 days at rule 75 require 8.
C3_RequiredDays ==
  Done /\ req.attendanceRule \in 1..100 =>
    LET out == res[1]
    IN  /\ 100 * out.requiredDays >= out.totalDays * req.attendanceRule
        /\ 100 * (out.requiredDays - 1) < out.totalDays * req.attendanceRule
        /\ (out.totalDays = 10 /\ req.attendanceRule = 75 => out.requiredDays = 8)

C3_Witness == Done /\ res[1].totalDays = 10 /\ req.attendanceRule = 75 /\ res[1].requiredDays = 8

\* C4: safeLeaveDays of a response is never negative, also when
\* leavesAvailedAlready exceeds totalDays.
C4_SafeLeaveDaysNonNegative == Done => res[1].safeLeaveDays >= 0

C4_Witness == Done /\ OrZero(req.leavesAvailedAlready) > res[1].totalDays

\* C5: isAtRisk is true exactly when the returned safeLeaveDays is <= 0.
C5_IsAtRisk == Done => (res[1].isAtRisk <=> res[1].safeLeaveDays <= 0)

C5_Witness == Done /\ res[1].isAtRisk /\ res[1].safeLeaveDays = 0 /\ res[1].totalDays > 0

\* C6: for attendanceRule in 1..100 and leavesAvailedAlready >= 0, when
\* safeLeaveDays > 0 a user absent on leavesAvailedAlready + safeLeaveDays of the
\* totalDays days still attends at least requiredDays days.
C6_SafeDaysAreSafe ==
  Done /\ req.attendanceRule \in 1..100 /\ OrZero(req.leavesAvailedAlready) >= 0
       /\ res[1].safeLeaveDays > 0 =>
    res[1].totalDays - OrZero(req.leavesAvailedAlready) - res[1].safeLeaveDays
      >= res[1].requiredDays

\* safe days granted after leaves were taken, with nothing to spare
C6_Witness ==
  Done /\ res[1].safeLeaveDays > 0 /\ OrZero(req.leavesAvailedAlready) > 0
       /\ res[1].totalDays - OrZero(req.leavesAvailedAlready) - res[1].safeLeaveDays
            = res[1].requiredDays

\* C7: the critical alert is present iff safeLeaveDays <= 0, the limited-leave
\* warning and the half-day recommendation iff 0 < safeLeaveDays <= 5, and the
\* 20% reserve recommendation iff safeLeaveDays > 10.
C7_Thresholds ==
  Done =>
    LET out == res[1]
    IN  /\ HasMsg(out.warnings, "Critical Alert") <=> out.safeLeaveDays <= 0
        /\ HasMsg(out.warnings, "High Risk Zone")
             <=> (0 < out.safeLeaveDays /\ out.safeLeaveDays <= 5)
        /\ HasMsg(out.recommendations, "Micro-Management")
             <=> (0 < out.safeLeaveDays /\ out.safeLeaveDays <= 5)
        /\ HasMsg(out.recommendations, "Safety Buffer") <=> out.safeLeaveDays > 10

\* which of the three threshold strings a response carries
ThresholdStrings(out) ==
  <<HasMsg(out.warnings, "Critical Alert"),
    HasMsg(out.warnings, "High Risk Zone") /\ HasMsg(out.recommendations, "Micro-Management"),
    HasMsg(out.recommendations, "Safety Buffer")>>

\* the boundary just above the last threshold: 11 safe days, reserve recommendation only
C7_Witness ==
  Done /\ res[1].safeLeaveDays = 11 /\ ThresholdStrings(res[1]) = <<FALSE, FALSE, TRUE>>

\* the other boundary values: 0, 5, 6 and 10
C7_WitnessZero ==
  Done /\ res[1].safeLeaveDays = 0 /\ ThresholdStrings(res[1]) = <<TRUE, FALSE, FALSE>>

C7_WitnessFive ==
  Done /\ res[1].safeLeaveDays = 5 /\ ThresholdStrings(res[1]) = <<FALSE, TRUE, FALSE>>

C7_WitnessSix ==
  Done /\ res[1].safeLeaveDays = 6 /\ ThresholdStrings(res[1]) = <<FALSE, FALSE, FALSE>>

C7_WitnessTen ==
  Done /\ res[1].safeLeaveDays = 10 /\ ThresholdStrings(res[1]) = <<FALSE, FALSE, FALSE>>

(***************************************************************************)
(* Properties relating two calls                                           *)
(* The second call is the same handler applied to a request that differs   *)
(* from the served one in the named fields, or at another reading of the   *)
(* clock.                                                                  *)
(***************************************************************************)
\* every day the clock can read
ClockDays == {c + k : c \in ClockStarts, k \in 0..MaxTicks}

\* the served request with other context hints
WithHints(r, inst, exam, proj) ==
  [r EXCEPT !.institutionType = inst, !.examDates = exam, !.projectDeadlines = proj]

\* the hint the userType branch of generateSuggestedLeaveDates reads
BranchHint(r) == IF r.userType = "student" THEN r.examDates ELSE r.projectDeadlines

\* C8: two requests that differ only in userType return the same totalDays,
\* requiredDays, safeLeaveDays, currentAttendancePercentage,
\* projectedAttendancePercentage and isAtRisk.
C8_UserTypeNotArithmetic ==
  Done =>
    \A ut \in UserTypes :
      Numeric(calculate([req EXCEPT !.userType = ut], now)) = Numeric(res[1])

\* an employee's response whose wording and suggestions differ from the student's
C8_Witness ==
  Done /\ req.userType = "employee" /\ res[1].safeLeaveDays > 0
       /\ LET other == calculate([req EXCEPT !.userType = "student"], now)
          IN  /\ other.recommendations # res[1].recommendations
              /\ other.suggestedLeaveDates # res[1].suggestedLeaveDates

\* C9 as stated: two requests that differ only in examDates, projectDeadlines and
\* institutionType return identical numeric fields, identical suggestedLeaveDates
\* and identical optimalLeaveDates.
C9_HintsOnlySelectStrings ==
  Done =>
    \A inst \in InstitutionTypes, exam \in Hints, proj \in Hints :
      LET other == calculate(WithHints(req, inst, exam, proj), now)
      IN  /\ Numeric(other) = Numeric(res[1])
          /\ other.suggestedLeaveDates = res[1].suggestedLeaveDates
          /\ other.optimalLeaveDates = res[1].optimalLeaveDates

\* C9 amended: two requests served at the same reading of the clock that differ only
\* in the hints return identical numeric
\* fields and identical optimalLeaveDates, and identical suggestedLeaveDates when
\* they agree on whether the hint of their userType (examDates for a student,
\* projectDeadlines for an employee) is a non-empty text.
C9_HintsAmended ==
  Done =>
    \A inst \in InstitutionTypes, exam \in Hints, proj \in Hints :
      LET other == WithHints(req, inst, exam, proj)
          out   == calculate(other, now)
      IN  /\ Numeric(out) = Numeric(res[1])
          /\ out.optimalLeaveDates = res[1].optimalLeaveDates
          /\ (Truthy(BranchHint(other)) <=> Truthy(BranchHint(req)))
               => out.suggestedLeaveDates = res[1].suggestedLeaveDates

\* a student's response that carries the post-exam suggestion, which the same
\* request without examDates does not get
C9_Witness ==
  Done /\ req.userType = "student" /\ Truthy(req.examDates)
       /\ (\E i \in 1..Len(res[1].suggestedLeaveDates) :
             res[1].suggestedLeaveDates[i].reason[2] = "Post-Exam Recovery & Celebration")
       /\ calculate([req EXCEPT !.examDates = Undefined], now).suggestedLeaveDates
            # res[1].suggestedLeaveDates

\* C10: the same request served at any reading of the clock returns the same
\* numeric fields.
C10_NumericIdempotent ==
  Done => \A clock \in ClockDays : Numeric(calculate(req, clock)) = Numeric(res[1])

\* a response whose suggestions do depend on the clock
C10_Witness ==
  Done /\ \E clock \in ClockDays :
            calculate(req, clock).suggestedLeaveDates # res[1].suggestedLeaveDates

(***************************************************************************)
(* Properties of suggestedLeaveDates and optimalLeaveDates                 *)
(***************************************************************************)
\* the suggestions array of the served request before the final sort and slice
CandidatesOf(r, clock) ==
  SuggestionCandidates(r.startDate, r.endDate, Arithmetic(r).safeLeaveDays, r.userType,
                       r.examDates, r.projectDeadlines, clock)

\* the dates of a list of suggestions never decrease
DatesAscend(dates) ==
  \A i, j \in 1..Len(dates) :
    i < j => parseISODate(dates[i].date) <= parseISODate(dates[j].date)

\* a list of suggestions in date order of at most 0.8 * safeLeaveDays entries
SortedAndLimited(dates, safeLeaveDays) ==
  /\ DatesAscend(dates)
  /\ 5 * Len(dates) <= 4 * safeLeaveDays
  /\ (safeLeaveDays = 1 => dates = <<>>)

\* C11: suggestedLeaveDates is sorted by date ascending and has at most
\* floor(safeLeaveDays * 0.8) entries, so none when safeLeaveDays = 1; the same
\* holds of the first copy of the function, which cuts at floor(safeLeaveDays / 2).
C11_SortedAndLimited ==
  Done =>
    /\ SortedAndLimited(res[1].suggestedLeaveDates, res[1].safeLeaveDays)
    /\ res[1].safeLeaveDays > 0 =>
         SortedAndLimited(SortAndLimitV1(CandidatesOf(req, now), res[1].safeLeaveDays),
                          res[1].safeLeaveDays)

\* a response cut to exactly the limit, from candidates that were not in date order
C11_Witness ==
  Done /\ Len(res[1].suggestedLeaveDates) >= 2
       /\ 5 * (Len(res[1].suggestedLeaveDates) + 1) > 4 * res[1].safeLeaveDays
       /\ Len(CandidatesOf(req, now)) > Len(res[1].suggestedLeaveDates)
       /\ ~DatesAscend(CandidatesOf(req, now))

\* a response with one safe day and candidates, all of them cut
C11_WitnessOne ==
  Done /\ res[1].safeLeaveDays = 1 /\ Len(CandidatesOf(req, now)) > 0
       /\ res[1].suggestedLeaveDates = <<>>

\* the windows analyzeOptimalPeriods proposes for request r
WindowsOf(r) ==
  analyzeOptimalPeriods(r.startDate, r.endDate, r.userType, r.examDates, r.projectDeadlines)

\* C12: every entry of optimalLeaveDates has a duration <= safeLeaveDays and an
\* aiScore in 0..100, the entries are in descending order of aiScore, and there are
\* at most 10 of them.
C12_OptimalDates ==
  Done =>
    LET optimalDates == res[1].optimalLeaveDates
    IN  /\ \A i \in 1..Len(optimalDates) :
             /\ optimalDates[i].duration <= res[1].safeLeaveDays
             /\ optimalDates[i].aiScore \in 0..100
        /\ \A i, j \in 1..Len(optimalDates) :
             i < j => optimalDates[i].aiScore >= optimalDates[j].aiScore
        /\ Len(optimalDates) <= 10

\* a response that left out a window too long for the safe days and ranked the
\* others in another order than they were proposed in
C12_Witness ==
  Done /\ Len(res[1].optimalLeaveDates) >= 3
       /\ (\E i \in 1..Len(WindowsOf(req)) : WindowsOf(req)[i].safeDays > res[1].safeLeaveDays)
       /\ res[1].optimalLeaveDates
            # OptimalDatesOf(FittingPeriods(WindowsOf(req), res[1].safeLeaveDays))

\* the <<festival name, date, type>> of the candidates that name a festival
FestivalEntries(suggestions) ==
  { <<suggestions[i].reason[1], suggestions[i].date, suggestions[i].type>> :
      i \in {j \in 1..Len(suggestions) : suggestions[j].reason[1] # ""} }

\* the dates, in the years the period touches, of the festival with the given month
\* and day, that fall inside the period on a Monday to Friday
FestivalDaysInside(startDate, endDate, month, day) ==
  { d \in { MakeDate(y, month, day) : y \in getFullYear(startDate)..getFullYear(endDate) } :
      d >= startDate /\ d <= endDate /\ getDay(d) \in 1..5 }

\* what the festival loop is to emit for the period: every festival date inside it
\* on a weekday, long_weekend on a Monday or Friday and festival otherwise
ExpectedFestivalEntries(startDate, endDate) ==
  UNION { { <<Festivals[i].name, toISODate(d),
              IF getDay(d) \in {1, 5} THEN "long_weekend" ELSE "festival">> :
              d \in FestivalDaysInside(startDate, endDate,
                                       Festivals[i].month, Festivals[i].approxDate) } :
          i \in 1..Len(Festivals) }

\* C13: for every period, also one that spans more than one calendar year, with
\* safeLeaveDays > 0, the candidates naming a festival are exactly the festivals of
\* the table whose date falls inside [startDate, endDate] on a Monday to Friday,
\* tagged long_weekend on a Monday or Friday and festival otherwise.
C13_FestivalCandidates ==
  Done /\ res[1].safeLeaveDays > 0 =>
    FestivalEntries(CandidatesOf(req, now)) = ExpectedFestivalEntries(req.startDate, req.endDate)

\* the same for the periods that lie within one calendar year
C13_WithinOneYear ==
  Done /\ res[1].safeLeaveDays > 0 /\ getFullYear(req.startDate) = getFullYear(req.endDate) =>
    FestivalEntries(CandidatesOf(req, now)) = ExpectedFestivalEntries(req.startDate, req.endDate)

\* the candidates the monthly loop pushed
MonthlyCandidates(suggestions) ==
  SelectSeq(suggestions, LAMBDA c : c.reason = <<"", "AI-Optimized Wellness Break">>)

\* the dates of a sequence of suggestions
DatesOf(suggestions) == {suggestions[i].date : i \in 1..Len(suggestions)}

\* the 15th of the k-th month after the month of startDate
Fifteenth(startDate, k) == MakeDate(getFullYear(startDate), getMonth(startDate) + k, 15)

\* the months from that of startDate whose 15th is not after endDate
MonthsProbed(startDate, endDate) ==
  { k \in 0..(12 * (getFullYear(endDate) - getFullYear(startDate)) + 12) :
      Fifteenth(startDate, k) <= endDate }

\* how many of the months before the k-th have their 15th on a Friday
FridaysBefore(startDate, k) ==
  Cardinality({j \in 0..(k - 1) : getDay(Fifteenth(startDate, j)) = 5})

\* the monthly candidates are long_weekend suggestions of one day, one per date
MonthlyShape(monthly) ==
  /\ \A i \in 1..Len(monthly) : monthly[i].type = "long_weekend" /\ monthly[i].duration = 1
  /\ Cardinality(DatesOf(monthly)) = Len(monthly)

\* C14 as stated: for each month from that of startDate whose 15th is not after
\* endDate, a long_weekend take-Friday-off candidate is emitted exactly when the
\* 15th is a Friday, however many suggestions were collected before.
C14_EveryMonthProbed ==
  Done /\ res[1].safeLeaveDays > 0 =>
    /\ MonthlyShape(MonthlyCandidates(CandidatesOf(req, now)))
    /\ DatesOf(MonthlyCandidates(CandidatesOf(req, now)))
         = { toISODate(Fifteenth(req.startDate, k)) :
               k \in { m \in MonthsProbed(req.startDate, req.endDate) :
                         getDay(Fifteenth(req.startDate, m)) = 5 } }

\* C14 amended: the months are probed in order only while the number of candidates
\* collected so far, the festival candidates and the earlier monthly ones, is below
\* safeLeaveDays; for each month so probed a long_weekend take-Friday-off candidate
\* is emitted exactly when its 15th is a Friday, and none for the months after.
C14_MonthsProbedWhileBelow ==
  Done /\ res[1].safeLeaveDays > 0 =>
    /\ MonthlyShape(MonthlyCandidates(CandidatesOf(req, now)))
    /\ DatesOf(MonthlyCandidates(CandidatesOf(req, now)))
         = { toISODate(Fifteenth(req.startDate, k)) :
               k \in { m \in MonthsProbed(req.startDate, req.endDate) :
                         /\ getDay(Fifteenth(req.startDate, m)) = 5
                         /\ Cardinality(FestivalEntries(CandidatesOf(req, now)))
                              + FridaysBefore(req.startDate, m) < res[1].safeLeaveDays } }

\* a Friday the 15th was emitted and a later one, still inside the period, was not
\* because the candidates had reached safeLeaveDays
C14_Witness ==
  Done /\ res[1].safeLeaveDays > 0
       /\ Len(MonthlyCandidates(CandidatesOf(req, now))) >= 1
       /\ \E m \in MonthsProbed(req.startDate, req.endDate) :
            /\ getDay(Fifteenth(req.startDate, m)) = 5
            /\ toISODate(Fifteenth(req.startDate, m))
                 \notin DatesOf(MonthlyCandidates(CandidatesOf(req, now)))

\* the 15th of the month of startDate is probed also when startDate comes after it
C14_WitnessBeforeStart ==
  Done /\ \E i \in 1..Len(CandidatesOf(req, now)) :
            /\ CandidatesOf(req, now)[i].reason = <<"", "AI-Optimized Wellness Break">>
            /\ parseISODate(CandidatesOf(req, now)[i].date) < req.startDate

\* the <<date, duration>> of the extended candidates
ExtendedEntries(suggestions) ==
  { <<suggestions[i].date, suggestions[i].duration>> :
      i \in {j \in 1..Len(suggestions) : suggestions[j].type = "extended"} }

\* how many extended candidates there are
ExtendedCount(suggestions) == Len(SelectSeq(suggestions, LAMBDA c : c.type = "extended"))

\* the day three months after startDate: the same day of the month, carried into the
\* next month when that month is too short
ThreeMonthsAfter(startDate) ==
  MakeDate(getFullYear(startDate), getMonth(startDate) + 3, getDate(startDate))

\* the now-relative extended suggestion of request r: 30 days from now for a student
\* with examDates, 45 days from now for an employee with projectDeadlines, the hint
\* being given when it is a non-empty text
NowRelativeEntries(r, clock) ==
  IF Truthy(BranchHint(r))
    THEN {<<toISODate(clock + (IF r.userType = "student" THEN 30 ELSE 45)), 3>>}
    ELSE {}

\* the mid-period suggestion of a student: two days at the midpoint of the period
MidPeriodEntries(r) == {<<toISODate(r.startDate + (r.endDate - r.startDate) \div 2), 2>>}

\* the quarterly suggestion of an employee: five days, three months after startDate
QuarterlyEntries(r) == {<<toISODate(ThreeMonthsAfter(r.startDate)), 5>>}

\* C15 as stated: with safeLeaveDays > 0 the extended candidates are, for either
\* userType, one mid-period or quarterly suggestion (student: the midpoint of the
\* period; employee: startDate + 3 months) plus the now-relative one when the hint
\* of the userType is given.
C15_ExtendedForEitherType ==
  Done /\ res[1].safeLeaveDays > 0 =>
    /\ ExtendedEntries(CandidatesOf(req, now))
         = NowRelativeEntries(req, now)
             \cup (IF req.userType = "student" THEN MidPeriodEntries(req)
                                                ELSE QuarterlyEntries(req))
    /\ ExtendedCount(CandidatesOf(req, now)) = 1 + Cardinality(NowRelativeEntries(req, now))

\* C15 amended: the employee's quarterly suggestion is a candidate only when
\* startDate + 3 months is not after endDate.
C15_ExtendedAmended ==
  Done /\ res[1].safeLeaveDays > 0 =>
    /\ ExtendedEntries(CandidatesOf(req, now))
         = NowRelativeEntries(req, now)
             \cup (IF req.userType = "student" THEN MidPeriodEntries(req)
                   ELSE IF ThreeMonthsAfter(req.startDate) <= req.endDate
                     THEN QuarterlyEntries(req)
                     ELSE {})
    /\ ExtendedCount(CandidatesOf(req, now))
         = Cardinality(NowRelativeEntries(req, now))
             + (IF req.userType = "employee" /\ ThreeMonthsAfter(req.startDate) > req.endDate
                  THEN 0 ELSE 1)

\* an employee whose period ends on the very day three months after startDate gets
\* the quarterly suggestion and the post-project one
C15_Witness ==
  Done /\ res[1].safeLeaveDays > 0 /\ req.userType = "employee"
       /\ Truthy(req.projectDeadlines)
       /\ ThreeMonthsAfter(req.startDate) = req.endDate
       /\ ExtendedCount(CandidatesOf(req, now)) = 2

\* an employee with a period shorter than three months gets no quarterly suggestion
C15_WitnessShort ==
  Done /\ res[1].safeLeaveDays > 0 /\ req.userType = "employee"
       /\ ThreeMonthsAfter(req.startDate) > req.endDate
       /\ ExtendedCount(CandidatesOf(req, now)) = 0

\* a student with examDates gets the post-exam suggestion and the mid-semester one
C15_WitnessStudent ==
  Done /\ res[1].safeLeaveDays > 0 /\ req.userType = "student" /\ Truthy(req.examDates)
       /\ ExtendedCount(CandidatesOf(req, now)) = 2

(***************************************************************************)
(* Requests outside the documented input ranges                            *)
(***************************************************************************)
\* the fields of an AttendanceCalculation
ResponseFields ==
  { "totalDays", "requiredDays", "safeLeaveDays", "currentAttendancePercentage",
    "projectedAttendancePercentage", "isAtRisk", "recommendations", "warnings",
    "suggestedHolidayDates", "suggestedLeaveDates", "optimalLeaveDates" }

\* out is an AttendanceCalculation computed the ordinary way for request r
OrdinaryCalculation(r, out) ==
  /\ DOMAIN out = ResponseFields
  /\ out.totalDays \in Nat
  /\ 100 * out.requiredDays >= out.totalDays * r.attendanceRule
  /\ 100 * (out.requiredDays - 1) < out.totalDays * r.attendanceRule
  /\ out.safeLeaveDays \in Nat
  /\ out.projectedAttendancePercentage = r.attendanceRule
  /\ out.isAtRisk = (out.safeLeaveDays <= 0)

\* C16: a request with startDate > endDate, a negative attendanceRule or an
\* attendanceRule > 100 (its other inputs in their documented ranges) is never
\* rejected: what the handler returns for it is an ordinary AttendanceCalculation;
\* for startDate > endDate that is totalDays = 0, requiredDays = 0,
\* safeLeaveDays = 0 and isAtRisk = true.
C16_NoValidation ==
  Done =>
    /\ OrdinaryCalculation(req, res[1])
    /\ req.startDate > req.endDate =>
         /\ res[1].totalDays = 0 /\ res[1].requiredDays = 0
         /\ res[1].safeLeaveDays = 0 /\ res[1].isAtRisk

\* a request with endDate before startDate and a rule above 100 has been served
C16_Witness ==
  Done /\ req.startDate > req.endDate /\ req.attendanceRule > 100
       /\ res[1].totalDays = 0 /\ res[1].isAtRisk

\* a request with a negative rule has been served: it requires a negative number of
\* days and every remaining day is safe
C16_WitnessNegativeRule ==
  Done /\ req.attendanceRule < 0 /\ res[1].requiredDays < 0
       /\ res[1].safeLeaveDays = res[1].totalDays /\ res[1].totalDays > 0

\* a request with a rule above 100 over a period with working days has been served
C16_WitnessAboveHundred ==
  Done /\ req.attendanceRule > 100 /\ res[1].requiredDays > res[1].totalDays
       /\ res[1].safeLeaveDays = 0

(***************************************************************************)
(* Properties of the getPublicHolidays response                            *)
(***************************************************************************)
\* the day of the week of a date, counted from Monday 1970-01-05: 0 is Monday
DaysSinceMonday(d) == (d - 4) % 7

\* the long weekend of a holiday by its day of the week: how many days the window
\* begins before the holiday and ends after it, the leave days and the days off
WindowRule ==
  [ Monday    |-> [before |-> 3, after |-> 0, leave |-> 1, off |-> 4],
    Tuesday   |-> [before |-> 1, after |-> 0, leave |-> 1, off |-> 4],
    Wednesday |-> [before |-> 0, after |-> 2, leave |-> 2, off |-> 5],
    Thursday  |-> [before |-> 0, after |-> 1, leave |-> 1, off |-> 4],
    Friday    |-> [before |-> 0, after |-> 3, leave |-> 1, off |-> 4] ]

WorkDayNames == <<"Monday", "Tuesday", "Wednesday", "Thursday", "Friday">>

\* the holiday falls on a Monday to Friday
OnWorkDay(holiday) == DaysSinceMonday(holiday.date) < 5

\* the rule of a holiday that falls on a Monday to Friday
RuleOf(holiday) == WindowRule[WorkDayNames[DaysSinceMonday(holiday.date) + 1]]

\* the window of the holiday's rule lies inside the period
WindowFits(holiday, startDate, endDate) ==
  /\ holiday.date - RuleOf(holiday).before >= startDate
  /\ holiday.date + RuleOf(holiday).after <= endDate

\* suggestion is the long weekend the rule of the holiday gives
IsWindowOf(suggestion, holiday) ==
  /\ suggestion.startDate = holiday.date - RuleOf(holiday).before
  /\ suggestion.endDate = holiday.date + RuleOf(holiday).after
  /\ suggestion.holidayName = holiday.name
  /\ suggestion.leaveDaysRequired = RuleOf(holiday).leave
  /\ suggestion.totalDaysOff = RuleOf(holiday).off

\* C17: every holiday of the response that falls on a Monday to Friday and whose
\* window fits the period has its window among the suggestions: Monday the Friday
\* three days before to the holiday (1 leave day, 4 days off), Friday the holiday to
\* the Monday three days after (1, 4), Tuesday the Monday before to the holiday
\* (1, 4), Thursday the holiday to the Friday after (1, 4), Wednesday the holiday to
\* the Friday two days after (2, 5).
C17_WeekdayWindows ==
  Done =>
    \A i \in 1..Len(res[1].holidays) :
      OnWorkDay(res[1].holidays[i])
        /\ WindowFits(res[1].holidays[i], req.startDate, req.endDate) =>
          \E j \in 1..Len(res[1].suggestedLongWeekends) :
            IsWindowOf(res[1].suggestedLongWeekends[j], res[1].holidays[i])

\* a response with the window of a holiday on the given day of the week
HasWindowOn(dayName) ==
  Done /\ \E i \in 1..Len(res[1].holidays), j \in 1..Len(res[1].suggestedLongWeekends) :
            /\ OnWorkDay(res[1].holidays[i])
            /\ WorkDayNames[DaysSinceMonday(res[1].holidays[i].date) + 1] = dayName
            /\ IsWindowOf(res[1].suggestedLongWeekends[j], res[1].holidays[i])

\* a response with the five-day window of a Wednesday holiday and the four-day
\* window of a Monday holiday
C17_Witness == HasWindowOn("Wednesday") /\ HasWindowOn("Monday")

C17_WitnessTuesday == HasWindowOn("Tuesday")

C17_WitnessThursday == HasWindowOn("Thursday")

C17_WitnessFriday == HasWindowOn("Friday")

\* the holidays of a list that fall on a Monday to Friday with a window that fits
FittingHolidays(list, startDate, endDate) ==
  {i \in 1..Len(list) : OnWorkDay(list[i]) /\ WindowFits(list[i], startDate, endDate)}

\* the response to the request of the end-to-end scenario, January 2025 with the one
\* holiday on Monday the 27th
IsHolidayScenario ==
  /\ req.startDate = DaysFromCivil(2025, 1, 1) /\ req.endDate = DaysFromCivil(2025, 1, 31)
  /\ Len(res[1].holidays) = 1
  /\ res[1].holidays[1].date = DaysFromCivil(2025, 1, 27)

\* C18: there are as many suggestions as holidays that fall on a Monday to Friday
\* with a window that fits the period, every suggestion being the window of such a
\* holiday, so a holiday on a Saturday or Sunday yields none; the single holiday on
\* Monday 2025-01-27 in January 2025 yields exactly the entry 2025-01-24 to
\* 2025-01-27 with 1 leave day and 4 days off.
C18_OnePerFittingHoliday ==
  Done =>
    /\ Len(res[1].suggestedLongWeekends)
         = Cardinality(FittingHolidays(res[1].holidays, req.startDate, req.endDate))
    /\ \A j \in 1..Len(res[1].suggestedLongWeekends) :
         \E i \in FittingHolidays(res[1].holidays, req.startDate, req.endDate) :
           IsWindowOf(res[1].suggestedLongWeekends[j], res[1].holidays[i])
    /\ IsHolidayScenario =>
         /\ Len(res[1].suggestedLongWeekends) = 1
         /\ res[1].suggestedLongWeekends[1].startDate = DaysFromCivil(2025, 1, 24)
         /\ res[1].suggestedLongWeekends[1].endDate = DaysFromCivil(2025, 1, 27)
         /\ res[1].suggestedLongWeekends[1].leaveDaysRequired = 1
         /\ res[1].suggestedLongWeekends[1].totalDaysOff = 4

\* the scenario has been served
C18_Witness == Done /\ IsHolidayScenario /\ Len(res[1].suggestedLongWeekends) = 1

\* a response with a holiday on a Saturday and one on a Sunday, and no suggestion
C18_WitnessWeekend ==
  Done /\ Len(res[1].holidays) = 2 /\ res[1].suggestedLongWeekends = <<>>
       /\ DaysSinceMonday(res[1].holidays[1].date) = 5
       /\ DaysSinceMonday(res[1].holidays[2].date) = 6

\* the date of the holiday a suggestion was made for: the end of its window when
\* the leave day comes before the holiday, the start otherwise
HolidayDateOf(suggestion) ==
  IF suggestion.description \in {"Take Friday off before", "Take Monday off before"}
    THEN suggestion.endDate
    ELSE suggestion.startDate

\* the holidays of a list on a Monday to Friday whose window does not fit the period
DroppedHolidays(list, startDate, endDate) ==
  {i \in 1..Len(list) : OnWorkDay(list[i]) /\ ~WindowFits(list[i], startDate, endDate)}

\* C19: every suggestion of a response lies inside the period, startDate of the
\* period <= its startDate <= its endDate <= endDate of the period, and a holiday
\* whose leave day would fall outside the period has no suggestion made for it,
\* not even one with a shortened window.
C19_InsidePeriodOrDropped ==
  Done =>
    /\ \A j \in 1..Len(res[1].suggestedLongWeekends) :
         /\ req.startDate <= res[1].suggestedLongWeekends[j].startDate
         /\ res[1].suggestedLongWeekends[j].startDate <= res[1].suggestedLongWeekends[j].endDate
         /\ res[1].suggestedLongWeekends[j].endDate <= req.endDate
    /\ \A i \in DroppedHolidays(res[1].holidays, req.startDate, req.endDate) :
         \A j \in 1..Len(res[1].suggestedLongWeekends) :
           HolidayDateOf(res[1].suggestedLongWeekends[j]) # res[1].holidays[i].date

\* a response with a holiday whose leave day falls outside the period and a holiday
\* whose window fits: one suggestion, for the second
C19_Witness ==
  Done /\ Len(res[1].holidays) = 2 /\ Len(res[1].suggestedLongWeekends) = 1
       /\ DroppedHolidays(res[1].holidays, req.startDate, req.endDate) # {}
       /\ FittingHolidays(res[1].holidays, req.startDate, req.endDate) # {}

\* a holiday dropped at the start of the period, and one dropped at its end
C19_WitnessBothEnds ==
  Done /\ Len(res[1].holidays) = 2 /\ res[1].suggestedLongWeekends = <<>>
       /\ res[1].holidays[1].date = req.startDate /\ res[1].holidays[2].date = req.endDate
       /\ DroppedHolidays(res[1].holidays, req.startDate, req.endDate) = {1, 2}

\* C20: suggestedLongWeekends of every response is in ascending order of startDate,
\* whatever the order of the holidays it was derived from, the provider's or the
\* fallback table's, also for periods of several years.
C20_SortedByStart ==
  Done =>
    \A i, j \in 1..Len(res[1].suggestedLongWeekends) :
      i < j => res[1].suggestedLongWeekends[i].startDate
                 <= res[1].suggestedLongWeekends[j].startDate

\* the provider listed a later holiday before an earlier one, and the suggestions
\* of the two come in the order of their start dates
C20_Witness ==
  Done /\ Len(res[1].holidays) = 2 /\ Len(res[1].suggestedLongWeekends) = 2
       /\ res[1].holidays[1].date > res[1].holidays[2].date
       /\ HolidayDateOf(res[1].suggestedLongWeekends[1]) = res[1].holidays[2].date
       /\ res[1].suggestedLongWeekends[1].startDate < res[1].suggestedLongWeekends[2].startDate

\* the fallback table served a period of more than one year, with suggestions in
\* each of its years
C20_WitnessFallbackYears ==
  Done /\ getFullYear(req.endDate) > getFullYear(req.startDate) + 1
       /\ [i \in 1..Len(calls) |-> calls[i].year] = <<2024, 2025, 2026>>
       /\ Len(res[1].suggestedLongWeekends) >= 2
       /\ getFullYear(res[1].suggestedLongWeekends[1].startDate) = 2024
       /\ getFullYear(
            res[1].suggestedLongWeekends[Len(res[1].suggestedLongWeekends)].startDate) = 2025

(***************************************************************************)
(* Properties of the getPublicHolidays response: weekends, holidays and    *)
(* the calls of the provider                                               *)
(***************************************************************************)
\* the holidays of the response came from the provider
ProviderPath == fetched # <<>>

\* the Saturdays and Sundays of the period
WeekendDays(startDate, endDate) ==
  {d \in startDate..endDate : DaysSinceMonday(d) >= 5}

\* C21: weekends of every response lists exactly the dates from startDate to
\* endDate, both included, that are a Saturday or a Sunday, each once and in
\* ascending order, whether the holidays came from the provider or from the
\* fallback table.
C21_Weekends ==
  Done =>
    /\ \A i, j \in 1..Len(res[1].weekends) :
         i < j => res[1].weekends[i] < res[1].weekends[j]
    /\ {res[1].weekends[i] : i \in 1..Len(res[1].weekends)}
         = WeekendDays(req.startDate, req.endDate)

\* a response on the provider path for a period that begins on a Monday and ends on
\* a Sunday: both days of the first weekend and both of the last
C21_Witness ==
  Done /\ ProviderPath
       /\ req.startDate = DaysFromCivil(2025, 1, 6) /\ req.endDate = DaysFromCivil(2025, 1, 19)
       /\ res[1].weekends = << DaysFromCivil(2025, 1, 11), DaysFromCivil(2025, 1, 12),
                               DaysFromCivil(2025, 1, 18), DaysFromCivil(2025, 1, 19) >>

\* a response on the fallback path for the year 2025, with its 104 weekend days
C21_WitnessFallback ==
  Done /\ ~ProviderPath
       /\ req.startDate = DaysFromCivil(2025, 1, 1) /\ req.endDate = DaysFromCivil(2025, 12, 31)
       /\ Len(res[1].weekends) = 104

\* the days a call of the provider listed
DaysListed(call) ==
  IF call.outcome.kind = "ok"
    THEN {parseISODate(call.outcome.holidaysData[i].date) :
            i \in 1..Len(call.outcome.holidaysData)}
    ELSE {}

\* C22: every holiday of a response has a date d with startDate <= d <= endDate,
\* whether the provider listed it or the fallback table holds it; what the provider
\* lists or the table holds outside the period is not in the response.
C22_HolidaysInsidePeriod ==
  Done =>
    \A i \in 1..Len(res[1].holidays) :
      /\ req.startDate <= res[1].holidays[i].date
      /\ res[1].holidays[i].date <= req.endDate

\* the provider listed the day before startDate and the day startDate, and the
\* response has the second only
C22_Witness ==
  Done /\ ProviderPath
       /\ Len(calls) = 1 /\ DaysListed(calls[1]) = {req.startDate - 1, req.startDate}
       /\ Len(res[1].holidays) = 1 /\ res[1].holidays[1].date = req.startDate

\* the provider listed the day endDate and the day after it
C22_WitnessEnd ==
  Done /\ ProviderPath
       /\ Len(calls) = 1 /\ DaysListed(calls[1]) = {req.endDate, req.endDate + 1}
       /\ Len(res[1].holidays) = 1 /\ res[1].holidays[1].date = req.endDate

\* the fallback table served six weeks across the turn of the year: Christmas of
\* the first year, New Year's Day and Republic Day of the second, and no other of
\* the twenty-two entries of the two years
C22_WitnessFallback ==
  Done /\ ~ProviderPath
       /\ req.startDate = DaysFromCivil(2024, 12, 20) /\ req.endDate = DaysFromCivil(2025, 1, 31)
       /\ [i \in 1..Len(res[1].holidays) |-> res[1].holidays[i].date]
            = << DaysFromCivil(2024, 12, 25), DaysFromCivil(2025, 1, 1),
                 DaysFromCivil(2025, 1, 26) >>

\* the three fields of a getPublicHolidays response
HolidayResponseFields == {"holidays", "weekends", "suggestedLongWeekends"}

\* the entries of the fallback table as holidays of year y
TableEntries(y) ==
  { TableHolidays(HolidayTable(y), y)[i] : i \in 1..Len(HolidayTable(y)) }

\* the entries of the fallback table, for every year the period spans, that fall
\* inside the period
TableEntriesInside(startDate, endDate) ==
  { h \in UNION { TableEntries(y) : y \in getFullYear(startDate)..getFullYear(endDate) } :
      h.date >= startDate /\ h.date <= endDate }

\* the holidays of a list as a set
HolidaySet(list) == {list[i] : i \in 1..Len(list)}

\* no call of the provider yielded a holiday inside the period
NothingFetched == fetched = <<>>

\* C23: whatever every call of the provider came to, the response is a normal one
\* with holidays, weekends and suggestedLongWeekends, and when no call yielded a
\* holiday inside the period its holidays are the entries of the fallback table
\* that fall inside the period, each once.
C23_FallbackForWholePeriod ==
  Done =>
    /\ DOMAIN res[1] = HolidayResponseFields
    /\ NothingFetched =>
         /\ HolidaySet(res[1].holidays) = TableEntriesInside(req.startDate, req.endDate)
         /\ Len(res[1].holidays) = Cardinality(HolidaySet(res[1].holidays))

\* the same for the periods that end in the year of startDate or the year after it
C23_FallbackWithinTwoYears ==
  Done =>
    /\ DOMAIN res[1] = HolidayResponseFields
    /\ NothingFetched /\ getFullYear(req.endDate) <= getFullYear(req.startDate) + 1 =>
         /\ HolidaySet(res[1].holidays) = TableEntriesInside(req.startDate, req.endDate)
         /\ Len(res[1].holidays) = Cardinality(HolidaySet(res[1].holidays))

\* the outcomes of the calls made, in order
OutcomeKinds == [i \in 1..Len(calls) |-> calls[i].outcome.kind]

\* a response after a call that threw and a call that was not ok
C23_ReachedAfterFailures ==
  Done /\ NothingFetched /\ OutcomeKinds = <<"thrown", "not ok">>
       /\ DOMAIN res[1] = HolidayResponseFields

\* a response after an empty list
C23_ReachedAfterEmptyList ==
  Done /\ NothingFetched /\ Len(calls) = 1 /\ calls[1].outcome = Ok(<<>>)
       /\ res[1].holidays = getFallbackHolidays(req.startDate, req.endDate)
       /\ res[1].holidays # <<>>

\* a response after a list with no day inside the period
C23_ReachedAfterListOutside ==
  Done /\ NothingFetched /\ Len(calls) = 1
       /\ DaysListed(calls[1]) = {req.endDate + 1}
       /\ res[1].holidays # <<>>

\* the years getFallbackHolidays builds entries for
FallbackYears(startDate, endDate) ==
  {y \in getFullYear(startDate)..getFullYear(endDate) : y <= getFullYear(startDate) + 1}

\* the years with a table of their own
TableYears == {2024, 2025}

\* the holidays of a list dated in year y
HolidaysOfYear(list, y) == {h \in HolidaySet(list) : getFullYear(h.date) = y}

\* the entries of a table, taken as holidays of year y, that fall inside the period
EntriesInside(table, y, startDate, endDate) ==
  { h \in { TableHolidays(table, y)[i] : i \in 1..Len(table) } :
      h.date >= startDate /\ h.date <= endDate }

\* the table of the pre-populated year nearest to y: 2024 up to 2024, 2025 after
NearestTable(y) == IF y <= 2024 THEN HolidayTable2024 ELSE HolidayTable2025

\* C24 as stated: on the fallback path the holidays of a year with no table of its
\* own are the entries of the nearest pre-populated year's table that fall inside
\* the period, the 2025 entries for a year after 2025 and the 2024 entries for a year
\* before 2024.
C24_NearestTable ==
  Done /\ NothingFetched =>
    \A y \in FallbackYears(req.startDate, req.endDate) \ TableYears :
      HolidaysOfYear(res[1].holidays, y)
        = EntriesInside(NearestTable(y), y, req.startDate, req.endDate)

\* C24: on the fallback path the holidays of a year with no table of its own, among
\* startDate's year and the year after it, are the entries of the 2024 table that
\* fall inside the period, for a year after 2025 as for a year before 2024.
C24_Table2024 ==
  Done /\ NothingFetched =>
    \A y \in FallbackYears(req.startDate, req.endDate) \ TableYears :
      HolidaysOfYear(res[1].holidays, y)
        = EntriesInside(HolidayTable2024, y, req.startDate, req.endDate)

\* the fallback served the first quarter of 2026 with Holi on 25 March, its day in
\* the 2024 table, not on 14 March, its day in the 2025 table
C24_Witness ==
  Done /\ NothingFetched
       /\ req.startDate = DaysFromCivil(2026, 1, 1) /\ req.endDate = DaysFromCivil(2026, 3, 31)
       /\ [i \in 1..Len(res[1].holidays) |-> <<res[1].holidays[i].name, res[1].holidays[i].date>>]
            = << <<"New Year's Day", DaysFromCivil(2026, 1, 1)>>,
                 <<"Republic Day", DaysFromCivil(2026, 1, 26)>>,
                 <<"Holi", DaysFromCivil(2026, 3, 25)>> >>

\* the fallback served two months of 2023 with the days of the 2024 table
C24_WitnessBefore2024 ==
  Done /\ NothingFetched
       /\ getFullYear(req.startDate) = 2023
       /\ [i \in 1..Len(res[1].holidays) |-> <<res[1].holidays[i].name, res[1].holidays[i].date>>]
            = << <<"Holi", DaysFromCivil(2023, 3, 25)>>,
                 <<"Ram Navami", DaysFromCivil(2023, 4, 17)>> >>

\* 2026 as the year after startDate's year: Christmas 2025, then the 2024 days
C24_WitnessNextYear ==
  Done /\ NothingFetched
       /\ req.startDate = DaysFromCivil(2025, 12, 1) /\ req.endDate = DaysFromCivil(2026, 3, 31)
       /\ [i \in 1..Len(res[1].holidays) |-> res[1].holidays[i].date]
            = << DaysFromCivil(2025, 12, 25), DaysFromCivil(2026, 1, 1),
                 DaysFromCivil(2026, 1, 26), DaysFromCivil(2026, 3, 25) >>

(***************************************************************************)
(* Calls of the external services                                          *)
(***************************************************************************)
\* the request being served is one to /ai/chat
IsChat == "message" \in DOMAIN req

\* the years of the period in ascending order
SpannedYears(startDate, endDate) ==
  [i \in 1..(getFullYear(endDate) - getFullYear(startDate) + 1) |->
     getFullYear(startDate) + i - 1]

\* the years the provider has been called for, in the order of the calls
CallYears == [i \in 1..Len(calls) |-> calls[i].year]

\* C25: while a getPublicHolidays request is served the provider has been called
\* once for each of the first years of the period, in ascending order, and by the
\* time of the response once for each year from startDate's to endDate's, whatever
\* the calls came to; while a chat request is served the completions API has been
\* called at most once, exactly once by the time of the response when the key is
\* configured, and never when it is absent or empty.
C25_OneCallEach ==
  IF IsChat
    THEN /\ Len(calls) <= 1
         /\ ~Truthy(openAIKey) => calls = <<>>
         /\ Done /\ Truthy(openAIKey) => Len(calls) = 1
    ELSE /\ Len(calls) <= Len(SpannedYears(req.startDate, req.endDate))
         /\ CallYears = SubSeq(SpannedYears(req.startDate, req.endDate), 1, Len(calls))
         /\ Done => CallYears = SpannedYears(req.startDate, req.endDate)

\* a period of three years served after a call that threw, a call that was not ok
\* and a call that listed nothing: three calls, one for each year
C25_Witness ==
  Done /\ ~IsChat
       /\ CallYears = <<2024, 2025, 2026>>
       /\ OutcomeKinds = <<"thrown", "not ok", "ok">>

\* a chat request served with the key configured after the one call failed
C25_WitnessChatFailed ==
  Done /\ IsChat /\ Truthy(openAIKey) /\ Len(calls) = 1
       /\ calls[1].outcome = NotOk /\ res[1] = getRuleBasedResponse(req)

\* a chat request served from the completion
C25_WitnessChatAnswered ==
  Done /\ IsChat /\ Len(calls) = 1 /\ res[1].response = <<"completion", "advice">>

\* a chat request served with no key and no call
C25_WitnessNoKey ==
  Done /\ IsChat /\ openAIKey = Undefined /\ calls = <<>>
       /\ res[1] = getRuleBasedResponse(req)

(***************************************************************************)
(* Properties of the calculate response: the dates suggested               *)
(***************************************************************************)
\* the suggestion is one of the two dated from Date.now()
IsNowRelative(suggestion) ==
  suggestion.reason \in { <<"", "Post-Exam Recovery & Celebration">>,
                          <<"", "Post-Project Decompression">> }

\* the suggestions of a response that are dated from the calendar
AnchoredSuggestions(out) ==
  SelectSeq(out.suggestedLeaveDates, LAMBDA s : ~IsNowRelative(s))

\* the date of the suggestion is a day of the period
InsideRequestPeriod(suggestion) ==
  /\ req.startDate <= parseISODate(suggestion.date)
  /\ parseISODate(suggestion.date) <= req.endDate

\* C26: every entry of suggestedLeaveDates that is dated from the calendar (festival,
\* monthly wellness break, mid-semester, quarterly) has its date inside the period,
\* startDate <= date <= endDate, also when startDate is after the 15th of its month.
C26_AnchoredInsidePeriod ==
  Done =>
    \A i \in 1..Len(AnchoredSuggestions(res[1])) :
      InsideRequestPeriod(AnchoredSuggestions(res[1])[i])

\* the same for the periods that begin on or before the 15th of the month, and for
\* every period but for its monthly wellness breaks
C26_InsideButEarlyFifteenth ==
  Done =>
    \A i \in 1..Len(AnchoredSuggestions(res[1])) :
      \/ InsideRequestPeriod(AnchoredSuggestions(res[1])[i])
      \/ /\ AnchoredSuggestions(res[1])[i].reason = <<"", "AI-Optimized Wellness Break">>
         /\ getDate(req.startDate) > 15
         /\ parseISODate(AnchoredSuggestions(res[1])[i].date) = setDate(req.startDate, 15)

\* a response with a festival, a monthly, and a mid-semester or quarterly suggestion,
\* all inside a period that begins by the 15th
C26_ReachedInside ==
  Done /\ getDate(req.startDate) <= 15
       /\ (\A i \in 1..Len(AnchoredSuggestions(res[1])) :
             InsideRequestPeriod(AnchoredSuggestions(res[1])[i]))
       /\ (\E j \in 1..Len(res[1].suggestedLeaveDates) :
             res[1].suggestedLeaveDates[j].reason = <<"", "AI-Optimized Wellness Break">>)
       /\ (\E k \in 1..Len(res[1].suggestedLeaveDates) :
             res[1].suggestedLeaveDates[k].reason[2] \in
               {"Long Weekend Strategy", "Cultural Celebration"})
       /\ (\E n \in 1..Len(res[1].suggestedLeaveDates) :
             /\ res[1].suggestedLeaveDates[n].type = "extended"
             /\ ~IsNowRelative(res[1].suggestedLeaveDates[n]))

\* C27: a response with isAtRisk = true, that is with safeLeaveDays <= 0, has empty
\* suggestedLeaveDates, empty optimalLeaveDates and empty suggestedHolidayDates.
C27_NothingSuggestedAtRisk ==
  Done /\ res[1].isAtRisk =>
    /\ res[1].safeLeaveDays <= 0
    /\ res[1].suggestedLeaveDates = <<>>
    /\ res[1].optimalLeaveDates = <<>>
    /\ res[1].suggestedHolidayDates = <<>>

\* a response at risk for a period with working days and a weekday festival inside,
\* which with safe leave days to spend would be suggested
C27_Witness ==
  Done /\ res[1].isAtRisk /\ res[1].totalDays > 0
       /\ ExpectedFestivalEntries(req.startDate, req.endDate) # {}
       /\ res[1].suggestedLeaveDates = <<>> /\ res[1].optimalLeaveDates = <<>>
       /\ res[1].suggestedHolidayDates = <<>>

\* a response not at risk with the three lists filled
C27_WitnessNotAtRisk ==
  Done /\ ~res[1].isAtRisk
       /\ res[1].suggestedLeaveDates # <<>> /\ res[1].optimalLeaveDates # <<>>
       /\ res[1].suggestedHolidayDates # <<>>

(***************************************************************************)
(* Properties of the getPublicHolidays response: where holidays come from  *)
(***************************************************************************)
\* the holiday is an entry some call of the provider listed
FromProvider(holiday) ==
  \E c \in 1..Len(calls) :
    /\ calls[c].outcome.kind = "ok"
    /\ \E i \in 1..Len(calls[c].outcome.holidaysData) :
         /\ parseISODate(calls[c].outcome.holidaysData[i].date) = holiday.date
         /\ calls[c].outcome.holidaysData[i].name = holiday.name
         /\ holiday.type = (IF calls[c].outcome.holidaysData[i].global
                              THEN "national" ELSE "public")

\* the holiday is an entry of the fallback table for its year
FromTable(holiday) == holiday \in TableEntries(getFullYear(holiday.date))

\* some call of the provider listed a day of the period
SomeYearYielded ==
  \E c \in 1..Len(calls) :
    DaysListed(calls[c]) \cap (req.startDate..req.endDate) # {}

\* C28: the holidays of a response are all of them entries the provider listed, when
\* the call for some year of the period listed a day of the period, whatever the
\* calls for the other years came to, and all of them entries of the fallback table
\* otherwise; no response has both.
C28_OneSource ==
  Done =>
    IF SomeYearYielded
      THEN /\ res[1].holidays # <<>>
           /\ \A i \in 1..Len(res[1].holidays) :
                FromProvider(res[1].holidays[i]) /\ ~FromTable(res[1].holidays[i])
      ELSE \A i \in 1..Len(res[1].holidays) :
             FromTable(res[1].holidays[i]) /\ ~FromProvider(res[1].holidays[i])

\* the call for the first year threw and the call for the second listed one day of
\* the period: the response has that holiday alone, without New Year's Day, which
\* the fallback table has inside the period
C28_Witness ==
  Done /\ OutcomeKinds = <<"thrown", "ok">>
       /\ Len(res[1].holidays) = 1 /\ FromProvider(res[1].holidays[1])
       /\ res[1].holidays[1].date # DaysFromCivil(2025, 1, 1)
       /\ req.startDate < DaysFromCivil(2025, 1, 1) /\ DaysFromCivil(2025, 1, 1) < req.endDate

\* the calls of both years came to nothing and the response has the table's entry
C28_WitnessFallback ==
  Done /\ OutcomeKinds = <<"not ok", "ok">> /\ ~SomeYearYielded
       /\ Len(res[1].holidays) = 1 /\ FromTable(res[1].holidays[1])
       /\ res[1].holidays[1].name = "New Year's Day"

(***************************************************************************)
(* Properties of the calculate response: safeLeaveDays across requests     *)
(***************************************************************************)
\* the response to request r served at the same reading of the clock
Served(r) == calculate(r, now)

\* the least of the percentages of PctSteps above pct, 100 when there is none
NextPct(pct) ==
  IF \E q \in PctSteps : q > pct
    THEN CHOOSE q \in PctSteps : q > pct /\ \A q2 \in PctSteps : q2 > pct => q <= q2
    ELSE 100

\* C29: with the period and the attendance so far fixed, more leaves availed or one
\* more point of attendanceRule never raise safeLeaveDays; with the period, the rule
\* and the leaves fixed, a higher currentAttendancePercentage never raises it, and
\* at 100 safeLeaveDays is 0 and isAtRisk is true.
C29_SafeLeaveDaysMonotone ==
  Done =>
    /\ \A leaves \in 0..(MaxLeaves + 1) :
         leaves >= OrZero(req.leavesAvailedAlready) =>
           Served([req EXCEPT !.leavesAvailedAlready = Some(leaves)]).safeLeaveDays
             <= res[1].safeLeaveDays
    /\ req.attendanceRule < 100 =>
         Served([req EXCEPT !.attendanceRule = @ + 1]).safeLeaveDays <= res[1].safeLeaveDays
    /\ req.currentAttendancePercentage # Undefined =>
         /\ Served([req EXCEPT !.currentAttendancePercentage =
                                Some(NextPct(ValueOf(@)))]).safeLeaveDays
              <= res[1].safeLeaveDays
         /\ ValueOf(req.currentAttendancePercentage) = 100 =>
              res[1].safeLeaveDays = 0 /\ res[1].isAtRisk

\* a response with safe leave days that one more leave availed lowers, one more
\* point of the rule lowers, and a higher attendance so far lowers
C29_Witness ==
  Done /\ res[1].safeLeaveDays >= 2 /\ req.attendanceRule < 100
       /\ req.currentAttendancePercentage = Some(75)
       /\ Served([req EXCEPT !.leavesAvailedAlready = Some(OrZero(@) + 1)]).safeLeaveDays
            < res[1].safeLeaveDays
       /\ Served([req EXCEPT !.attendanceRule = @ + 1]).safeLeaveDays < res[1].safeLeaveDays
       /\ Served([req EXCEPT !.currentAttendancePercentage = Some(90)]).safeLeaveDays
            < res[1].safeLeaveDays

\* a response at 100 per cent of attendance so far: no safe leave day, at risk
C29_WitnessFull ==
  Done /\ req.currentAttendancePercentage = Some(100) /\ res[1].totalDays > 0
       /\ req.attendanceRule = 75
       /\ res[1].safeLeaveDays = 0 /\ res[1].isAtRisk

(***************************************************************************)
(* The two endpoints on one period                                         *)
(***************************************************************************)
\* weekends of the getPublicHolidays response for the period of request r, the
\* provider yielding nothing
WeekendsFor(r) ==
  PublicHolidaysResponse(fetchPublicHolidays(<<>>, r.startDate, r.endDate),
                         r.startDate, r.endDate).weekends

\* totalDays of the calculate response for the single day d in place of the period
CountedAlone(r, d) == Served([r EXCEPT !.startDate = d, !.endDate = d]).totalDays

\* C30: for a period with startDate <= endDate, totalDays of calculate and the
\* number of weekends of getPublicHolidays add up to the days of the period,
\* endDate - startDate + 1, and every day of the period is either among weekends or
\* counted by calculate, never both.
C30_Partition ==
  Done /\ req.startDate <= req.endDate =>
    /\ res[1].totalDays + Len(WeekendsFor(req)) = req.endDate - req.startDate + 1
    /\ \A d \in req.startDate..req.endDate :
         IF \E i \in 1..Len(WeekendsFor(req)) : WeekendsFor(req)[i] = d
           THEN CountedAlone(req, d) = 0
           ELSE CountedAlone(req, d) = 1

\* a period of more than two weeks that begins on a Saturday: working days and
\* weekend days both, adding up to its length
C30_Witness ==
  Done /\ getDay(req.startDate) = 6 /\ req.endDate - req.startDate + 1 > 14
       /\ res[1].totalDays >= 10 /\ Len(WeekendsFor(req)) >= 5
       /\ res[1].totalDays + Len(WeekendsFor(req)) = req.endDate - req.startDate + 1

\* a single Sunday: no working day, one weekend day
C30_WitnessSunday ==
  Done /\ req.startDate = req.endDate /\ getDay(req.startDate) = 0
       /\ res[1].totalDays = 0 /\ WeekendsFor(req) = <<req.startDate>>

====
